---- MODULE Spec2Model ----
(***************************************************************************)
(* Model of the serverless GPS demo: the single-stage GPSWorker            *)
(* (consumer-group read loop, pending-entry recovery, processMessage),     *)
(* the Redis broker and state store it talks to, and the multi-stage       *)
(* worker chain (position smoother, velocity calculator).                  *)
(*                                                                         *)
(* A worker process runs two asynchronous chains on one event loop: the    *)
(* start() chain ("main") and the setInterval callback ("timer").  A chain *)
(* is suspended at an await; its pc names the command it is waiting for.   *)
(* One action executes that command on the broker and runs the chain to    *)
(* its next await.                                                         *)
(***************************************************************************)
EXTENDS Integers, Sequences, FiniteSets, TLC

\* ---------------------------------------------------------------- bounds
NumMsgs == 3            \* messages the replay tool appends to gps:raw
MaxFaults == 1          \* thrown errors and killed processes in one behaviour
MaxTimerFires == 1      \* firings of the 5-minute recovery timer
MaxFixes == 3           \* fixes run through both topologies in SpecTopo
LiveMsgs == 1           \* undelivered records on the stream in SpecLive
MaxTicks == 1           \* times the idle threshold elapses
MaxClock == 21          \* steps of MinIdleMs the clock of SpecDelay runs for
MaxReadFailures == 3   \* failed reads in SpecRead
MaxResults == 3        \* results published in SpecSse
MaxPending == 102      \* pending entries at the start of a pass in SpecPass
MaxCalls == 3           \* fixes run through the pipeline in SpecPipe

\* ------------------------------------------------------ program constants
MinIdleMs == 30000
CleanupPeriodMs == 300000
BATCH_SIZE == 10
PendingCount == 100
VELOCITY_WINDOW_SIZE == 5
STATE_TTL == 3600
DefaultDtMs == 100
DefaultDtMs001 == 1000
MOVEMENT_THRESHOLD == 500
OLD_STATE_BYTES == 212

Workers == {"w1", "w2"}
Kinds == {"main", "timer"}
Threads == Workers \X Kinds
Sensors == {"s1", "s2"}
Msgs == 1..NumMsgs
None == "none"
FreshEngine == <<>>

Main(w) == <<w, "main">>
Timer(w) == <<w, "timer">>

Min(a, b) == IF a < b THEN a ELSE b

\* ------------------------------------------------------------- the stream
\* A record of the stream.  A field's text is <<n>> when it is the decimal
\* text of n and <<>> when it is absent or not numeric.
\* ReplayRecord(m): the m-th record of the standard replay.  Every third
\* record is malformed: it carries a lat that does not parse, or lacks its
\* sensorId.
ReplayRecord(m) ==
  [sensorId  |-> IF m % 3 = 0 /\ m % 2 = 0 THEN ""
                 ELSE IF m % 2 = 1 THEN "s1" ELSE "s2",
   lat       |-> IF m % 3 = 0 /\ m % 2 = 1 THEN <<>> ELSE <<m>>,
   lon       |-> <<m>>,
   timestamp |-> <<m * 1000>>]

VARIABLE feed     \* the records the replay tool appends, in order

VARIABLE stopSnap \* worker -> its main chain as it was when stop() was called

VARIABLE pipe     \* one sensor's data path with its numbers (SpecPipe)

VARIABLE sse      \* the event-stream server: its subscription and clients

VARIABLE stage    \* a forwarding stage: which worker it runs, its output stream

VARIABLE pass     \* one recovery pass over a long pending list (SpecPass)

\* fields of message m
Fields(m) == feed[m]

NaN == -1

\* parseFloat: the number for a numeric text, NaN otherwise
ParseFloat(txt) == IF Len(txt) = 1 THEN txt[1] ELSE NaN

RawPoint(m) ==
  [sensorId  |-> Fields(m).sensorId,
   lat       |-> ParseFloat(Fields(m).lat),
   lon       |-> ParseFloat(Fields(m).lon),
   timestamp |-> ParseFloat(Fields(m).timestamp)]

\* (mutant) the validation forgets the latitude
IsInvalidNoLat(p) ==
  p.sensorId = "" \/ p.lon = NaN \/ p.timestamp = NaN

\* the validation at the head of processMessage
IsInvalid(p) ==
  p.sensorId = "" \/ p.lat = NaN \/ p.lon = NaN \/ p.timestamp = NaN

\* ------------------------------------------------------------------ state
VARIABLES
  streamLen,      \* gps:raw holds the messages 1..streamLen
  groupExists,    \* the consumer group gps-workers exists
  lastDelivered,  \* the group's last-delivered id
  pel,            \* pending entries: message -> [owner, idle]
  appStore,       \* gps:app:{sensor}: the stored AppState, or None
  blobStore,      \* gps:pipeline:{sensor}: the stored filter blob, or None
  ttl,            \* sensor -> seconds each of its two keys has left to live
  channel,        \* results published on gps:processed, in order
  running,        \* worker -> this.running
  timerSet,       \* worker -> the recovery interval is armed
  engine,         \* worker -> internal state of its position pipeline
  th,             \* chain -> its control state and local variables (with
                  \* skipped: entries its recovery pass passed over, and
                  \* thrown: messages of its batch that threw)
  acked,          \* messages acknowledged so far
  entered,        \* messages whose loadState was issued
  savedFor,       \* messages whose saveState completed
  fatal,          \* workers whose engine raised a configuration error
  faults, timerFires, ticks,
  topo            \* the two topologies run side by side over one fix sequence

vars == <<streamLen, groupExists, lastDelivered, pel, appStore, blobStore, ttl,
          channel, running, timerSet, engine, th, acked, entered, savedFor,
          fatal, faults, timerFires, ticks, topo, feed, stopSnap, pipe,
          sse, stage, pass>>

brokerVars == <<streamLen, groupExists, lastDelivered, pel, acked>>
storeVars == <<appStore, blobStore, ttl>>
workerVars == <<running, timerSet, engine>>
ghostVars == <<entered, savedFor, fatal>>
boundVars == <<faults, timerFires, ticks>>

NoEntry == [owner |-> None, idle |-> 0]
Pending(m) == pel[m].owner # None

\* an optional value: <<>> when absent, <<x>> when present
Absent == <<>>
Some(x) == <<x>>

\* a position: the origin, a raw fix, or the output of the position filter
\* (a function of the filter state e the call left behind)
ZeroPos == [k |-> "zero", lat |-> 0, lon |-> 0, e |-> <<>>]
RawPos(lat, lon) == [k |-> "raw", lat |-> lat, lon |-> lon, e |-> <<>>]
SmoothPos(e) == [k |-> "smooth", lat |-> 0, lon |-> 0, e |-> e]

\* no key of the sensor is stored
NoTtl == [app |-> 0, blob |-> 0]

\* the all-zero state loadState returns when nothing is stored
ZeroAppState ==
  [lastTimestamp |-> 0, prev |-> ZeroPos, velocityIndex |-> 0]

\* a chain's record with empty locals, suspended at pcv
Off(pcv) ==
  [pc |-> pcv, mode |-> None, batch |-> <<>>, pending |-> <<>>, cur |-> 0,
   listedIdle |-> 0, app |-> ZeroAppState, blobIn |-> Absent, appIn |-> Absent,
   blobOut |-> Absent, result |-> Absent, skipped |-> 0, thrown |-> 0]

\* the topologies' side of the state: the fix sequence fed to both, the
\* single-stage worker (its pipeline, the store, what it published), the
\* position smoother and the velocity calculator (their in-memory maps and
\* output streams)
TopoStart(fixes) ==
  [fixes    |-> fixes,
   worker   |-> [engine |-> FreshEngine,
                 appStore |-> [s \in Sensors |-> Absent],
                 blobStore |-> [s \in Sensors |-> Absent],
                 out |-> <<>>],
   smoother |-> [engine |-> FreshEngine,
                 states |-> [s \in Sensors |-> Absent],
                 out |-> <<>>],
   velocity |-> [states |-> [s \in Sensors |-> Absent],
                 out |-> <<>>]]

NoTopo == TopoStart(<<>>)

\* the state loadState returns when nothing (usable) is stored: an empty
\* velocity window and zeros
ZeroSensorState ==
  [velocityBuffer |-> [i \in 1..VELOCITY_WINDOW_SIZE |-> 0],
   velocityIndex |-> 0, lastTimestamp |-> 0, prevLat |-> 0, prevLon |-> 0]

\* one sensor's data path: the version of GPSPipeline in use, who calls it
\* (processMessage of the worker, or processBatch), the state in hand, the
\* stored record, the fix being processed and what the last call of
\* process did
PipeStart(ver, caller, state) ==
  [ver |-> ver, caller |-> caller, phase |-> "idle", state |-> state,
   stored |-> <<>>, load |-> <<>>, point |-> <<>>, last |-> <<>>, calls |-> 0]

NoPipe == PipeStart("000", "batch", ZeroSensorState)

\* the response objects of the browsers that may connect
Clients == {"c1", "c2"}

\* the event-stream server after app.listen: not subscribed yet, no
\* client in clients (sensorId -> responses, keys the sensorIds the Map has
\* an entry for) or in allClients; life tells whether a response is open,
\* has had a write throw, or has had its close event, and filter is the
\* sensorId its handlers closed over; inbox holds the messages the
\* subscriber has received and not handled, sent what was written to each
\* response; heard and since record the messages handled so far and how
\* many were handled when a response connected
NoSse ==
  [subscribed |-> FALSE,
   clients |-> [s \in Sensors |-> {}],
   keys |-> {},
   allClients |-> {},
   life |-> [c \in Clients |-> "none"],
   filter |-> [c \in Clients |-> <<>>],
   inbox |-> <<>>,
   heard |-> <<>>,
   sent |-> [c \in Clients |-> <<>>],
   since |-> [c \in Clients |-> 0],
   published |-> 0]

\* a forwarding stage of the multi-stage topology: the worker class its
\* group runs (the position smoother or the velocity calculator) and the
\* records on its output stream, each with the input message it came from
StageStart(kind) == [kind |-> kind, out |-> <<>>]

NoStage == StageStart("smoother")

\* a recovery pass about to start: the idle times of the group's pending
\* entries from the oldest to the newest, the XPENDING reply still to go
\* through, and the entries whose XCLAIM was sent
PassStart(entries) ==
  [entries |-> entries, phase |-> "xpending", reply |-> <<>>, attempted |-> {}]

NoPass == PassStart(<<>>)

\* the standard replay
Replay == [m \in Msgs |-> ReplayRecord(m)]

Init ==
  /\ streamLen = 0
  /\ groupExists = FALSE
  /\ lastDelivered = 0
  /\ pel = [m \in Msgs |-> NoEntry]
  /\ appStore = [s \in Sensors |-> Absent]
  /\ blobStore = [s \in Sensors |-> Absent]
  /\ ttl = [s \in Sensors |-> NoTtl]
  /\ channel = <<>>
  /\ running = [w \in Workers |-> FALSE]
  /\ timerSet = [w \in Workers |-> FALSE]
  /\ engine = [w \in Workers |-> FreshEngine]
  /\ th = [t \in Threads |-> IF t[2] = "main" THEN Off("dead") ELSE Off("off")]
  /\ acked = {}
  /\ entered = {}
  /\ savedFor = {}
  /\ fatal = {}
  /\ faults = 0
  /\ timerFires = 0
  /\ ticks = 0
  /\ topo = NoTopo
  /\ feed = Replay
  /\ stopSnap = [w \in Workers |-> Absent]
  /\ pipe = NoPipe
  /\ sse = NoSse
  /\ stage = NoStage
  /\ pass = NoPass

\* ------------------------------------------------------ control skeleton
\* pcs at which a chain is inside processMessage
PmPcs == {"xack_invalid", "get", "get_app", "process", "setex", "setex_app",
          "publish", "xack"}

\* (mutant) a message is acknowledged as soon as it is taken
BeginMessageAckOnly(r, m) == [r EXCEPT !.pc = "xack", !.cur = m]

\* processMessage is entered for message m: parse, validate, and issue
\* either the XACK of an invalid message or the GETs of loadState
BeginMessage(r, m) ==
  [r EXCEPT !.pc = IF IsInvalid(RawPoint(m)) THEN "xack_invalid" ELSE "get",
            !.cur = m, !.listedIdle = 0, !.app = ZeroAppState,
            !.blobIn = Absent, !.appIn = Absent, !.blobOut = Absent,
            !.result = Absent]

\* while (this.running): issue the next XREADGROUP or leave the loop
LoopHead(run) ==
  IF run THEN [Off("xreadgroup") EXCEPT !.mode = "batch"] ELSE Off("stopped")

\* (mutant) the loop takes the first message of a batch only
NextInBatchFirstOnly(r, run) == LoopHead(run)

\* the for loop over the batch moves on to its next message, or to the
\* head of the while loop
NextInBatch(r, run) ==
  IF Len(r.batch) > 1
  THEN BeginMessage([r EXCEPT !.batch = Tail(r.batch)], r.batch[2])
  ELSE LoopHead(run)

\* (mutant) the catch gives up the rest of the batch
CatchAbortsBatch(r, run) == LoopHead(run)

\* the catch of the batch loop: log and go on with the next message
CatchInBatch(r, run) == NextInBatch(r, run)

\* recoverPendingMessages returns to its caller
EndRecover(kind) == IF kind = "main" THEN Off("start_loop") ELSE Off("idle")

\* (mutant) the pass passes over every entry
SkipEntryAlways(idleTime) == TRUE

\* if (idleTime < 30000) continue
SkipEntry(idleTime) == idleTime < MinIdleMs

Listed(e) == ~SkipEntry(e.idle)

\* the for loop over the XPENDING reply: skip entries below the threshold,
\* issue the XCLAIM of the first one that is not
NextPending(r, kind) ==
  LET todo == SelectSeq(r.pending, Listed) IN
  IF todo = <<>> THEN EndRecover(kind)
  ELSE [r EXCEPT !.pc = "xclaim", !.cur = Head(todo).id,
                 !.listedIdle = Head(todo).idle, !.pending = Tail(todo)]

\* processMessage returned, or threw into the catch of its caller
AfterMessage(r, kind, run) ==
  IF r.mode = "batch" THEN NextInBatch(r, run) ELSE NextPending(r, kind)

\* (mutant) the catch inside the recovery loop ends the pass
CatchInPassEndsPass(r, kind) == EndRecover(kind)

\* the catch inside the for loop of recoverPendingMessages: log, do not
\* acknowledge, go on with the next entry
CatchInPass(r, kind) == NextPending(r, kind)

AfterThrow(r, kind, run) ==
  IF r.mode = "batch" THEN CatchInBatch(r, run) ELSE CatchInPass(r, kind)

\* ------------------------------------------------------------ state store
APP_STATE_BYTES == 68

createInitialState(lat, lon, timestamp) ==
  [lastTimestamp |-> timestamp, prev |-> RawPos(lat, lon), velocityIndex |-> 0]

\* (mutant) the record is written without the last timestamp
serializeAppStateNoTimestamp(st) ==
  [len |-> APP_STATE_BYTES, velocityIndex |-> st.velocityIndex,
   lastTimestamp |-> 0, prev |-> st.prev]

\* the 68-byte record: velocity window, index, last timestamp, position
serializeAppState(st) ==
  [len |-> APP_STATE_BYTES, velocityIndex |-> st.velocityIndex,
   lastTimestamp |-> st.lastTimestamp, prev |-> st.prev]

deserializeAppState(buf) ==
  [lastTimestamp |-> buf.lastTimestamp, prev |-> buf.prev,
   velocityIndex |-> buf.velocityIndex]

\* the AppState loadState returns for the reply appBuffer of its GET
LoadedAppState(appBuffer) ==
  IF appBuffer # Absent /\ appBuffer[1].len = APP_STATE_BYTES
  THEN deserializeAppState(appBuffer[1])
  ELSE ZeroAppState

\* the position pipeline after loadState: a stored blob replaces its
\* internal state, no blob leaves the pipeline as it is
EngineAfterLoad(eng, pipelineBuffer) ==
  IF pipelineBuffer # Absent THEN pipelineBuffer[1] ELSE eng

\* --------------------------------------------------------------- pipeline
\* GPSPipeline.process: time delta in ms, one step of the position filter,
\* the instantaneous velocity and the new application state
TimeDelta(point, state) ==
  IF state.lastTimestamp > 0 THEN point.timestamp - state.lastTimestamp
  ELSE DefaultDtMs

PipelineProcess(eng, point, state) ==
  LET dt   == TimeDelta(point, state)
      eng2 == Append(eng, [lat |-> point.lat, lon |-> point.lon, dt |-> dt])
      vel  == IF dt > 0 THEN [zero |-> FALSE, from |-> state.prev, dt |-> dt]
              ELSE [zero |-> TRUE, from |-> ZeroPos, dt |-> 0]
  IN [engine |-> eng2,
      result |-> [lat |-> point.lat, lon |-> point.lon,
                  timestamp |-> point.timestamp, smoothed |-> SmoothPos(eng2),
                  velocity |-> vel],
      newAppState |-> [lastTimestamp |-> point.timestamp,
                       prev |-> SmoothPos(eng2),
                       velocityIndex |->
                         (state.velocityIndex + 1) % VELOCITY_WINDOW_SIZE]]

\* ----------------------------------------------------------------- broker
\* XPENDING gps:raw gps-workers - + 100: the oldest pending entries
AllIds == [i \in Msgs |-> i]

PendingReply ==
  LET ids == SelectSeq(AllIds, Pending)
      n   == Min(Len(ids), PendingCount)
  IN [i \in 1..n |-> [id |-> ids[i], consumer |-> pel[ids[i]].owner,
                      idle |-> pel[ids[i]].idle]]

\* (mutant) the claim is made without a minimum idle time
ClaimArgsNoMinIdle == [minIdle |-> 0, force |-> FALSE]

\* (mutant) the claim is made with FORCE
ClaimArgsForce == [minIdle |-> MinIdleMs, force |-> TRUE]

\* the arguments of the worker's XCLAIM call
ClaimArgs == [minIdle |-> MinIdleMs, force |-> FALSE]

\* XCLAIM hands the entry over when it is pending and idle for at least
\* minIdle; FORCE also creates an entry that is not in the list
ClaimGranted(m, args) ==
  \/ Pending(m) /\ pel[m].idle >= args.minIdle
  \/ ~Pending(m) /\ args.force /\ m <= streamLen

\* XREADGROUP ... COUNT 10 ... >: the never-delivered messages
ReadReply ==
  LET n == Min(streamLen - lastDelivered, BATCH_SIZE)
  IN [i \in 1..n |-> lastDelivered + i]

\* ---------------------------------------------------------------- actions
Upd(t, r) == th' = [th EXCEPT ![t] = r]

\* the replay tool appends the next record to gps:raw
Produce ==
  /\ streamLen < NumMsgs
  /\ streamLen' = streamLen + 1
  /\ UNCHANGED <<pass, stage, sse, pipe, topo, feed, stopSnap, groupExists, lastDelivered, pel, acked, storeVars, channel,
                 workerVars, th, ghostVars, boundVars>>

\* time passes: every pending entry reaches the idle threshold
Tick ==
  /\ \E m \in Msgs : Pending(m) /\ pel[m].idle < MinIdleMs
  /\ ticks < MaxTicks
  /\ ticks' = ticks + 1
  /\ pel' = [m \in Msgs |->
               IF Pending(m) THEN [pel[m] EXCEPT !.idle = MinIdleMs] ELSE pel[m]]
  /\ UNCHANGED <<pass, stage, sse, pipe, topo, feed, stopSnap, streamLen, groupExists, lastDelivered, acked, storeVars,
                 channel, workerVars, th, ghostVars, faults, timerFires>>

\* a worker process is launched: start() issues XGROUP CREATE
Start(w) ==
  /\ th[Main(w)].pc = "dead"
  /\ th' = [th EXCEPT ![Main(w)] = Off("xgroup"), ![Timer(w)] = Off("off")]
  /\ UNCHANGED <<pass, stage, sse, pipe, topo, feed, stopSnap, brokerVars, storeVars, channel, workerVars, ghostVars,
                 boundVars>>

\* the process is gone: its chains, its flags and its pipeline with it
Gone(w) ==
  /\ th' = [th EXCEPT ![Main(w)] = Off("dead"), ![Timer(w)] = Off("off")]
  /\ running' = [running EXCEPT ![w] = FALSE]
  /\ timerSet' = [timerSet EXCEPT ![w] = FALSE]
  /\ engine' = [engine EXCEPT ![w] = FreshEngine]
  /\ fatal' = fatal \ {w}

\* the worker process is killed
Crash(w) ==
  /\ th[Main(w)].pc # "dead"
  /\ faults < MaxFaults
  /\ faults' = faults + 1
  /\ Gone(w)
  /\ UNCHANGED <<pass, stage, sse, pipe, topo, feed, stopSnap, brokerVars, storeVars, channel, entered, savedFor, timerFires,
                 ticks>>

\* (mutant) start() goes from the group straight to its loop
AfterGroupNoRecovery == Off("start_loop")

\* start() after initializeConsumerGroup returned: the startup recovery
\* pass issues its XPENDING
AfterGroup == [Off("xpending") EXCEPT !.mode = "recover"]

\* (mutant) the group is set to the end of the stream every time
PositionAfterCreateLatest == streamLen

\* XGROUP CREATE gps:raw gps-workers 0 MKSTREAM: a new group starts at the
\* origin; for an existing group the command fails with BUSYGROUP and
\* leaves it as it is
PositionAfterCreate == IF groupExists THEN lastDelivered ELSE 0

\* initializeConsumerGroup: create the group at the origin; BUSYGROUP is
\* swallowed; then the startup recovery pass issues its XPENDING
InitializeConsumerGroup(w) ==
  /\ th[Main(w)].pc = "xgroup"
  /\ groupExists' = TRUE
  /\ lastDelivered' = PositionAfterCreate
  /\ Upd(Main(w), AfterGroup)
  /\ UNCHANGED <<pass, stage, sse, pipe, topo, feed, stopSnap, streamLen, pel, acked, storeVars, channel, workerVars,
                 ghostVars, boundVars>>

\* XGROUP fails with another error: start() rejects, process.exit(1)
FailGroup(w) ==
  /\ th[Main(w)].pc = "xgroup"
  /\ faults < MaxFaults
  /\ faults' = faults + 1
  /\ Gone(w)
  /\ UNCHANGED <<pass, stage, sse, pipe, topo, feed, stopSnap, brokerVars, storeVars, channel, entered, savedFor, timerFires,
                 ticks>>

\* recoverPendingMessages: the XPENDING reply arrives
ListPending(t) ==
  /\ th[t].pc = "xpending"
  /\ Upd(t, IF Len(PendingReply) = 0 THEN EndRecover(t[2])
            ELSE NextPending(
                   [th[t] EXCEPT !.pending = PendingReply,
                                 !.skipped = Len(PendingReply)
                                             - Len(SelectSeq(PendingReply, Listed))],
                   t[2]))
  /\ UNCHANGED <<pass, stage, sse, pipe, topo, feed, stopSnap, brokerVars, storeVars, channel, workerVars, ghostVars,
                 boundVars>>

\* XPENDING throws: the outer catch logs and the pass ends
FailPending(t) ==
  /\ th[t].pc = "xpending"
  /\ faults < MaxFaults
  /\ faults' = faults + 1
  /\ Upd(t, EndRecover(t[2]))
  /\ UNCHANGED <<pass, stage, sse, pipe, topo, feed, stopSnap, brokerVars, storeVars, channel, workerVars, ghostVars,
                 timerFires, ticks>>

\* the XCLAIM reply arrives: a claimed message goes to processMessage, an
\* empty reply moves the pass to its next entry
Claim(t) ==
  LET r == th[t]
      m == r.cur
  IN /\ r.pc = "xclaim"
     /\ IF ClaimGranted(m, ClaimArgs)
        THEN /\ pel' = [pel EXCEPT ![m] = [owner |-> t[1], idle |-> 0]]
             /\ Upd(t, BeginMessage(r, m))
        ELSE /\ pel' = pel
             /\ Upd(t, NextPending(r, t[2]))
     /\ UNCHANGED <<pass, stage, sse, pipe, topo, feed, stopSnap, streamLen, groupExists, lastDelivered, acked, storeVars,
                    channel, workerVars, ghostVars, boundVars>>

\* XCLAIM throws: the inner catch logs, the pass goes on
FailClaim(t) ==
  /\ th[t].pc = "xclaim"
  /\ faults < MaxFaults
  /\ faults' = faults + 1
  /\ Upd(t, CatchInPass(th[t], t[2]))
  /\ UNCHANGED <<pass, stage, sse, pipe, topo, feed, stopSnap, brokerVars, storeVars, channel, workerVars, ghostVars,
                 timerFires, ticks>>

\* after the startup pass: startPelCleanup(), running = true, first read
StartLoop(w) ==
  /\ th[Main(w)].pc = "start_loop"
  /\ timerSet' = [timerSet EXCEPT ![w] = TRUE]
  /\ running' = [running EXCEPT ![w] = TRUE]
  /\ th' = [th EXCEPT ![Main(w)] = LoopHead(TRUE), ![Timer(w)] = Off("idle")]
  /\ UNCHANGED <<pass, stage, sse, pipe, topo, feed, stopSnap, brokerVars, storeVars, channel, engine, ghostVars, boundVars>>

\* (mutant) the callback of the interval does nothing
OnTimerIdle(run) == Off("idle")

\* the callback of the interval: a recovery pass if the worker is running
OnTimer(run) ==
  IF run THEN [Off("xpending") EXCEPT !.mode = "recover"] ELSE Off("idle")

\* the interval fires: a recovery pass starts if the worker is running
TimerFire(w) ==
  /\ timerSet[w]
  /\ th[Timer(w)].pc = "idle"
  /\ timerFires < MaxTimerFires
  /\ timerFires' = timerFires + 1
  /\ Upd(Timer(w), OnTimer(running[w]))
  /\ UNCHANGED <<pass, stage, sse, pipe, topo, feed, stopSnap, brokerVars, storeVars, channel, workerVars, ghostVars,
                 faults, ticks>>

\* XREADGROUP returns a batch: its messages become pending entries of the
\* worker and the first one goes to processMessage
ReadBatch(w) ==
  LET t == Main(w)
      b == ReadReply
  IN /\ th[t].pc = "xreadgroup"
     /\ Len(b) > 0
     /\ lastDelivered' = lastDelivered + Len(b)
     /\ pel' = [m \in Msgs |->
                  IF m > lastDelivered /\ m <= lastDelivered + Len(b)
                  THEN [owner |-> w, idle |-> 0] ELSE pel[m]]
     /\ Upd(t, BeginMessage([th[t] EXCEPT !.batch = b], b[1]))
     /\ UNCHANGED <<pass, stage, sse, pipe, topo, feed, stopSnap, streamLen, groupExists, acked, storeVars, channel,
                    workerVars, ghostVars, boundVars>>

\* (mutant) the catch of the read loop leaves the loop
CatchInLoopExits == Off("stopped")

\* the catch of the while loop: log, then await this.sleep(1000)
CatchInLoop == [Off("sleep") EXCEPT !.mode = "batch"]

\* XREADGROUP throws: the loop's catch logs and sleeps one second
FailRead(w) ==
  /\ th[Main(w)].pc = "xreadgroup"
  /\ faults < MaxFaults
  /\ faults' = faults + 1
  /\ Upd(Main(w), CatchInLoop)
  /\ UNCHANGED <<pass, stage, sse, pipe, topo, feed, stopSnap, brokerVars, storeVars, channel, workerVars, ghostVars,
                 timerFires, ticks>>

\* the back-off is over: back to the head of the loop
WakeUp(w) ==
  /\ th[Main(w)].pc = "sleep"
  /\ Upd(Main(w), LoopHead(running[w]))
  /\ UNCHANGED <<pass, stage, sse, pipe, topo, feed, stopSnap, brokerVars, storeVars, channel, workerVars, ghostVars,
                 boundVars>>

\* ------------------------------------------------------- processMessage
\* (mutant) the message is acknowledged right after the save
PmNextAckEarly(pcv) ==
  CASE pcv = "get"     -> "process"
    [] pcv = "process" -> "setex"
    [] pcv = "setex"   -> "xack"
    [] pcv = "publish" -> "xack"

\* the order of the awaited steps of processMessage for a valid message
PmNext(pcv) ==
  CASE pcv = "get"     -> "process"
    [] pcv = "process" -> "setex"
    [] pcv = "setex"   -> "publish"
    [] pcv = "publish" -> "xack"

\* XACK of the message the chain is at; processMessage returns
Acknowledge(t, m) ==
  /\ pel' = [pel EXCEPT ![m] = NoEntry]
  /\ acked' = acked \cup {m}
  /\ Upd(t, AfterMessage(th[t], t[2], running[t[1]]))

\* an invalid point: warn, XACK, return
AckInvalid(t) ==
  /\ th[t].pc = "xack_invalid"
  /\ Acknowledge(t, th[t].cur)
  /\ UNCHANGED <<pass, stage, sse, pipe, topo, feed, stopSnap, streamLen, groupExists, lastDelivered, storeVars, channel,
                 workerVars, ghostVars, boundVars>>

\* loadState: both GETs, the blob into the position pipeline, the app
\* state decoded; a state without a last timestamp is re-created from the fix
LoadState(t) ==
  LET r  == th[t]
      w  == t[1]
      p  == RawPoint(r.cur)
      st == LoadedAppState(appStore[p.sensorId])
  IN /\ r.pc = "get"
     /\ engine' = [engine EXCEPT
                     ![w] = EngineAfterLoad(engine[w], blobStore[p.sensorId])]
     /\ Upd(t, [r EXCEPT !.pc = PmNext("get"),
                         !.blobIn = blobStore[p.sensorId],
                         !.appIn = appStore[p.sensorId],
                         !.app = IF st.lastTimestamp = 0
                                 THEN createInitialState(p.lat, p.lon, p.timestamp)
                                 ELSE st])
     /\ entered' = entered \cup {r.cur}
     /\ UNCHANGED <<pass, stage, sse, pipe, topo, feed, stopSnap, brokerVars, storeVars, channel, running, timerSet,
                    savedFor, fatal, boundVars>>

\* pipeline.process, then saveState takes the blob of the position
\* pipeline and issues both SETEXs
Process(t) ==
  LET r   == th[t]
      w   == t[1]
      p   == RawPoint(r.cur)
      out == PipelineProcess(engine[w], p, r.app)
  IN /\ r.pc = "process"
     /\ engine' = [engine EXCEPT ![w] = out.engine]
     /\ Upd(t, [r EXCEPT !.pc = PmNext("process"),
                         !.app = out.newAppState,
                         !.blobOut = Some(out.engine),
                         !.result = Some([sensorId |-> p.sensorId,
                                          messageId |-> r.cur,
                                          data |-> out.result])])
     /\ UNCHANGED <<pass, stage, sse, pipe, topo, feed, stopSnap, brokerVars, storeVars, channel, running, timerSet,
                    ghostVars, boundVars>>

\* (mutant) the keys are stored for half the time
SetexTtlHalf == STATE_TTL \div 2

\* the expiry argument of the SETEXs of saveState
SetexTtl == STATE_TTL

\* the two SETEXs of saveState
SaveState(t) ==
  LET r == th[t]
      s == RawPoint(r.cur).sensorId
  IN /\ r.pc = "setex"
     /\ blobStore' = [blobStore EXCEPT ![s] = r.blobOut]
     /\ appStore' = [appStore EXCEPT ![s] = Some(serializeAppState(r.app))]
     /\ ttl' = [ttl EXCEPT ![s] = [app |-> SetexTtl, blob |-> SetexTtl]]
     /\ savedFor' = savedFor \cup {r.cur}
     /\ Upd(t, [r EXCEPT !.pc = PmNext("setex")])
     /\ UNCHANGED <<pass, stage, sse, pipe, topo, feed, stopSnap, brokerVars, channel, workerVars, entered, fatal, boundVars>>

\* PUBLISH gps:processed
Publish(t) ==
  LET r == th[t]
  IN /\ r.pc = "publish"
     /\ channel' = Append(channel, r.result[1])
     /\ Upd(t, [r EXCEPT !.pc = PmNext("publish")])
     /\ UNCHANGED <<pass, stage, sse, pipe, topo, feed, stopSnap, brokerVars, storeVars, workerVars, ghostVars, boundVars>>

\* XACK of a processed message
Ack(t) ==
  /\ th[t].pc = "xack"
  /\ Acknowledge(t, th[t].cur)
  /\ UNCHANGED <<pass, stage, sse, pipe, topo, feed, stopSnap, streamLen, groupExists, lastDelivered, storeVars, channel,
                 workerVars, ghostVars, boundVars>>

\* the chain after an error thrown by processMessage was caught
Caught(t) ==
  LET r == AfterThrow(th[t], t[2], running[t[1]])
  IN IF th[t].mode = "batch" /\ r.pc \in PmPcs
     THEN [r EXCEPT !.thrown = th[t].thrown + 1] ELSE r

\* a store or broker command of processMessage throws: the error reaches
\* the catch of the loop that called processMessage
FailMessage(t) ==
  /\ th[t].pc \in {"xack_invalid", "get", "setex", "publish", "xack"}
  /\ faults < MaxFaults
  /\ faults' = faults + 1
  /\ Upd(t, Caught(t))
  /\ UNCHANGED <<pass, stage, sse, pipe, topo, feed, stopSnap, brokerVars, storeVars, channel, workerVars, ghostVars,
                 timerFires, ticks>>

\* the DSP engine rejects the call (channel-width mismatch): the error
\* reaches the same catch
EngineError(t) ==
  /\ th[t].pc = "process"
  /\ faults < MaxFaults
  /\ faults' = faults + 1
  /\ fatal' = fatal \cup {t[1]}
  /\ Upd(t, Caught(t))
  /\ UNCHANGED <<pass, stage, sse, pipe, topo, feed, stopSnap, brokerVars, storeVars, channel, workerVars, entered,
                 savedFor, timerFires, ticks>>

\* ---------------------------------------------------------- specification
\* the steps of the workers' start() chains, and of the environment
Steps ==
  \/ Produce
  \/ Tick
  \/ \E w \in Workers : Start(w)
  \/ \E w \in Workers : InitializeConsumerGroup(w)
  \/ \E t \in Threads : ListPending(t)
  \/ \E t \in Threads : Claim(t)
  \/ \E w \in Workers : StartLoop(w)
  \/ \E w \in Workers : ReadBatch(w)
  \/ \E w \in Workers : WakeUp(w)
  \/ \E t \in Threads : AckInvalid(t)
  \/ \E t \in Threads : LoadState(t)
  \/ \E t \in Threads : Process(t)
  \/ \E t \in Threads : SaveState(t)
  \/ \E t \in Threads : Publish(t)
  \/ \E t \in Threads : Ack(t)

\* thrown errors and killed processes
Faults ==
  \/ \E w \in Workers : Crash(w)
  \/ \E w \in Workers : FailGroup(w)
  \/ \E t \in Threads : FailPending(t)
  \/ \E t \in Threads : FailClaim(t)
  \/ \E w \in Workers : FailRead(w)
  \/ \E t \in Threads : FailMessage(t)
  \/ \E t \in Threads : EngineError(t)

\* Spec: a group of workers with their startup recovery passes and read
\* loops, under faults, within one firing period of the recovery timer
Next == Steps \/ Faults

Spec == Init /\ [][Next]_vars

\* SpecLive: the same workers over a stream of LiveMsgs records, with time
\* passing and the recovery timer of w1 firing without limit.  Worker w1 is
\* never killed and its chains keep being scheduled; w2 may stall at any
\* await, be killed and be relaunched, and does not live to see its timer
\* fire.
\* The replay has ended when the workers are launched: the stream holds its
\* last LiveMsgs records undelivered, and either nothing came before them or
\* the group consumed and acknowledged all that did.
InitLive ==
  \E base \in {0, NumMsgs - LiveMsgs} :
    /\ streamLen = base + LiveMsgs
    /\ groupExists = (base > 0)
    /\ lastDelivered = base
    /\ acked = 1..base
    /\ pel = [m \in Msgs |-> NoEntry]
    /\ appStore = [s \in Sensors |-> Absent]
    /\ blobStore = [s \in Sensors |-> Absent]
    /\ ttl = [s \in Sensors |-> NoTtl]
    /\ channel = <<>>
    /\ running = [w \in Workers |-> FALSE]
    /\ timerSet = [w \in Workers |-> FALSE]
    /\ engine = [w \in Workers |-> FreshEngine]
    /\ th = [t \in Threads |-> IF t[2] = "main" THEN Off("dead") ELSE Off("off")]
    /\ entered = {}
    /\ savedFor = {}
    /\ fatal = {}
    /\ faults = 0
    /\ timerFires = 0
    /\ ticks = 0
    /\ topo = NoTopo
    /\ feed = Replay
    /\ stopSnap = [w \in Workers |-> Absent]
    /\ pipe = NoPipe
    /\ sse = NoSse
    /\ stage = NoStage
    /\ pass = NoPass

TickLive ==
  /\ \E m \in Msgs : Pending(m) /\ pel[m].idle < MinIdleMs
  /\ pel' = [m \in Msgs |->
               IF Pending(m) THEN [pel[m] EXCEPT !.idle = MinIdleMs] ELSE pel[m]]
  /\ UNCHANGED <<pass, stage, sse, pipe, topo, feed, stopSnap, streamLen, groupExists, lastDelivered, acked, storeVars,
                 channel, workerVars, th, ghostVars, boundVars>>

TimerFireLive(w) ==
  /\ timerSet[w]
  /\ th[Timer(w)].pc = "idle"
  /\ running[w]
  /\ Upd(Timer(w), [Off("xpending") EXCEPT !.mode = "recover"])
  /\ UNCHANGED <<pass, stage, sse, pipe, topo, feed, stopSnap, brokerVars, storeVars, channel, workerVars, ghostVars,
                 boundVars>>

\* the steps a chain takes when the reply it awaits arrives
ChainStep(t) ==
  \/ ListPending(t)
  \/ Claim(t)
  \/ AckInvalid(t)
  \/ LoadState(t)
  \/ Process(t)
  \/ SaveState(t)
  \/ Publish(t)
  \/ Ack(t)

MainStep(w) ==
  \/ InitializeConsumerGroup(w)
  \/ StartLoop(w)
  \/ ReadBatch(w)

\* the two ways the claim names for an entry to be left behind: w2 is killed
\* between read (or claim) and ack, and processMessage throws in the batch
\* loop of w1
FaultsLive ==
  \/ th[Main("w2")].pc \in PmPcs /\ Crash("w2")
  \/ FailMessage(Main("w1"))

NextLive ==
  \/ TickLive
  \/ \E w \in Workers : Start(w)
  \/ TimerFireLive("w1")
  \/ \E w \in Workers : MainStep(w)
  \/ \E t \in Threads : ChainStep(t)
  \/ FaultsLive

\* the steps of the worker that keeps running
W1Step ==
  \/ Start("w1")
  \/ MainStep("w1")
  \/ ChainStep(Main("w1"))
  \/ TimerFireLive("w1")
  \/ ChainStep(Timer("w1"))

\* time passes, and the event loop of w1 runs a continuation whose reply
\* has arrived and the timer callback when it is due
SpecLive ==
  /\ InitLive
  /\ [][NextLive]_vars
  /\ WF_vars(TickLive)
  /\ WF_vars(W1Step)

\* SpecTopo: one sequence of valid fixes is run through the single-stage
\* worker and through the chain of stage workers, each with one instance,
\* without faults.
\* the fix sequences: each fix of either sensor, one or two seconds after
\* the fix before it
Gaps == {1000, 2000}

FixSeqs ==
  {[i \in 1..MaxFixes |->
      [sensorId |-> sid[i], lat |-> i, lon |-> i,
       timestamp |-> IF i = 1 THEN gap[1]
                     ELSE IF i = 2 THEN gap[1] + gap[2]
                     ELSE gap[1] + gap[2] + (i - 2) * gap[3]]] :
     sid \in [1..MaxFixes -> Sensors], gap \in [1..3 -> Gaps]}

InitTopo ==
  /\ streamLen = 0
  /\ groupExists = FALSE
  /\ lastDelivered = 0
  /\ pel = [m \in Msgs |-> NoEntry]
  /\ appStore = [s \in Sensors |-> Absent]
  /\ blobStore = [s \in Sensors |-> Absent]
  /\ ttl = [s \in Sensors |-> NoTtl]
  /\ channel = <<>>
  /\ running = [w \in Workers |-> FALSE]
  /\ timerSet = [w \in Workers |-> FALSE]
  /\ engine = [w \in Workers |-> FreshEngine]
  /\ th = [t \in Threads |-> IF t[2] = "main" THEN Off("dead") ELSE Off("off")]
  /\ acked = {}
  /\ entered = {}
  /\ savedFor = {}
  /\ fatal = {}
  /\ faults = 0
  /\ timerFires = 0
  /\ ticks = 0
  /\ topo \in {TopoStart(f) : f \in FixSeqs}
  /\ feed = Replay
  /\ stopSnap = [w \in Workers |-> Absent]
  /\ pipe = NoPipe
  /\ sse = NoSse
  /\ stage = NoStage
  /\ pass = NoPass

\* the time delta the position filter was last run with
LastDt(eng) == eng[Len(eng)].dt

\* GPSWorker.processMessage for the next fix: loadState, the first-point
\* initialisation, pipeline.process, saveState, publish
WorkerProcessMessage ==
  LET o   == topo.worker
      i   == Len(o.out) + 1
      p   == topo.fixes[i]
      st  == LoadedAppState(o.appStore[p.sensorId])
      eng == EngineAfterLoad(o.engine, o.blobStore[p.sensorId])
      app == IF st.lastTimestamp = 0
             THEN createInitialState(p.lat, p.lon, p.timestamp) ELSE st
      out == PipelineProcess(eng, p, app)
  IN /\ Len(o.out) < Len(topo.fixes)
     /\ topo' = [topo EXCEPT !.worker =
          [engine |-> out.engine,
           appStore |-> [o.appStore EXCEPT ![p.sensorId] =
                           Some(serializeAppState(out.newAppState))],
           blobStore |-> [o.blobStore EXCEPT ![p.sensorId] = Some(out.engine)],
           out |-> Append(o.out, [sensorId |-> p.sensorId,
                                  timestamp |-> p.timestamp,
                                  filterDt |-> LastDt(out.engine),
                                  smoothed |-> out.result.smoothed,
                                  velocity |-> out.result.velocity])]]
     /\ UNCHANGED <<pass, stage, sse, pipe, stopSnap, brokerVars, storeVars, channel, workerVars, th, ghostVars,
                    boundVars, feed>>

\* PositionSmootherWorker.processMessage for the next fix: the time delta
\* from the sensor's entry in the in-memory map, one step of the worker's
\* only filter, XADD to gps:position-smoothed
SmootherProcessMessage ==
  LET o    == topo.smoother
      i    == Len(o.out) + 1
      p    == topo.fixes[i]
      last == IF o.states[p.sensorId] = Absent THEN 0 ELSE o.states[p.sensorId][1]
      dt   == IF last > 0 THEN p.timestamp - last ELSE DefaultDtMs
      eng2 == Append(o.engine, [lat |-> p.lat, lon |-> p.lon, dt |-> dt])
  IN /\ Len(o.out) < Len(topo.fixes)
     /\ topo' = [topo EXCEPT !.smoother =
          [engine |-> eng2,
           states |-> [o.states EXCEPT ![p.sensorId] = Some(p.timestamp)],
           out |-> Append(o.out, [sensorId |-> p.sensorId,
                                  timestamp |-> p.timestamp,
                                  filterDt |-> dt,
                                  smoothed |-> SmoothPos(eng2)])]]
     /\ UNCHANGED <<pass, stage, sse, pipe, stopSnap, brokerVars, storeVars, channel, workerVars, th, ghostVars,
                    boundVars, feed>>

\* VelocityCalculatorWorker.processMessage for the next smoothed point: the
\* velocity from the sensor's previous point in the in-memory map, or 0
\* when there is none, XADD to gps:velocity-raw
VelocityProcessMessage ==
  LET o  == topo.velocity
      i  == Len(o.out) + 1
      p  == topo.smoother.out[i]
      st == o.states[p.sensorId]
      dt == IF st = Absent THEN 0 ELSE p.timestamp - st[1].lastTimestamp
      velocity == IF st # Absent /\ dt > 0
                  THEN [zero |-> FALSE, from |-> st[1].last, dt |-> dt]
                  ELSE [zero |-> TRUE, from |-> ZeroPos, dt |-> 0]
  IN /\ Len(o.out) < Len(topo.smoother.out)
     /\ topo' = [topo EXCEPT !.velocity =
          [states |-> [o.states EXCEPT ![p.sensorId] =
                         Some([last |-> p.smoothed,
                               lastTimestamp |-> p.timestamp])],
           out |-> Append(o.out, [sensorId |-> p.sensorId,
                                  timestamp |-> p.timestamp,
                                  filterDt |-> p.filterDt,
                                  smoothed |-> p.smoothed,
                                  velocity |-> velocity])]]
     /\ UNCHANGED <<pass, stage, sse, pipe, stopSnap, brokerVars, storeVars, channel, workerVars, th, ghostVars,
                    boundVars, feed>>

NextTopo ==
  \/ WorkerProcessMessage
  \/ SmootherProcessMessage
  \/ VelocityProcessMessage

SpecTopo == InitTopo /\ [][NextTopo]_vars

\* SpecStage: the stage workers over one fix sequence, each of them
\* restarted at any moment (its process is replaced; the consumer group
\* keeps its position in the stream, the process's memory is gone).
NoStates == [s \in Sensors |-> Absent]

\* the position smoother is restarted: new PositionSmootherWorker()
SmootherRestart ==
  /\ topo.smoother.states # NoStates
  /\ topo' = [topo EXCEPT !.smoother.states = NoStates,
                          !.smoother.engine = FreshEngine]
  /\ UNCHANGED <<pass, stage, sse, pipe, stopSnap, brokerVars, storeVars, channel, workerVars, th, ghostVars,
                 boundVars, feed>>

\* the velocity calculator is restarted: new VelocityCalculatorWorker()
VelocityRestart ==
  /\ topo.velocity.states # NoStates
  /\ topo' = [topo EXCEPT !.velocity.states = NoStates]
  /\ UNCHANGED <<pass, stage, sse, pipe, stopSnap, brokerVars, storeVars, channel, workerVars, th, ghostVars,
                 boundVars, feed>>

NextStage ==
  \/ SmootherProcessMessage
  \/ VelocityProcessMessage
  \/ SmootherRestart
  \/ VelocityRestart

SpecStage == InitTopo /\ [][NextStage]_vars


\* ------------------------------------------------- specification SpecSolo
\* a record of sensor s, or a record without latitude, appended as record m
FixRecord(s, m) ==
  [sensorId |-> s, lat |-> <<m>>, lon |-> <<m>>, timestamp |-> <<m * 1000>>]

BadRecord(m) ==
  [sensorId |-> "s1", lat |-> <<>>, lon |-> <<m>>, timestamp |-> <<m * 1000>>]

SoloFeeds ==
  {f \in [Msgs -> UNION {{FixRecord(s, m) : s \in Sensors} \cup {BadRecord(m)}
                          : m \in Msgs}] :
     \A m \in Msgs : f[m].lon = <<m>>}

\* the state before any worker is launched, for a replay out of feeds
InitFeeds(feeds) ==
  /\ streamLen = 0
  /\ groupExists = FALSE
  /\ lastDelivered = 0
  /\ pel = [m \in Msgs |-> NoEntry]
  /\ appStore = [s \in Sensors |-> Absent]
  /\ blobStore = [s \in Sensors |-> Absent]
  /\ ttl = [s \in Sensors |-> NoTtl]
  /\ channel = <<>>
  /\ running = [w \in Workers |-> FALSE]
  /\ timerSet = [w \in Workers |-> FALSE]
  /\ engine = [w \in Workers |-> FreshEngine]
  /\ th = [t \in Threads |-> IF t[2] = "main" THEN Off("dead") ELSE Off("off")]
  /\ acked = {}
  /\ entered = {}
  /\ savedFor = {}
  /\ fatal = {}
  /\ faults = 0
  /\ timerFires = 0
  /\ ticks = 0
  /\ topo = NoTopo
  /\ feed \in feeds
  /\ stopSnap = [w \in Workers |-> Absent]
  /\ pipe = NoPipe
  /\ sse = NoSse
  /\ stage = NoStage
  /\ pass = NoPass

InitSolo == InitFeeds(SoloFeeds)

\* more than STATE_TTL seconds pass without a save of sensor s: both of
\* its keys expire
Expire(s) ==
  /\ appStore[s] # Absent /\ blobStore[s] # Absent
  /\ ticks < MaxTicks
  /\ ticks' = ticks + 1
  /\ appStore' = [appStore EXCEPT ![s] = Absent]
  /\ blobStore' = [blobStore EXCEPT ![s] = Absent]
  /\ ttl' = [ttl EXCEPT ![s] = NoTtl]
  /\ UNCHANGED <<pass, stage, sse, pipe, topo, feed, stopSnap, brokerVars, channel, workerVars, th, ghostVars,
                 faults, timerFires>>

\* SpecSolo: one worker, no failure, any replay of fixes and records
\* without latitude, and keys that expire
NextSolo ==
  \/ Produce
  \/ Start("w1")
  \/ InitializeConsumerGroup("w1")
  \/ ListPending(Main("w1"))
  \/ StartLoop("w1")
  \/ ReadBatch("w1")
  \/ AckInvalid(Main("w1"))
  \/ LoadState(Main("w1"))
  \/ Process(Main("w1"))
  \/ SaveState(Main("w1"))
  \/ Publish(Main("w1"))
  \/ Ack(Main("w1"))
  \/ \E s \in Sensors : Expire(s)

SpecSolo == InitSolo /\ [][NextSolo]_vars

\* the worker is launched and its event loop runs every continuation
\* whose reply has arrived
SoloStep == NextSolo /\ th' # th

SpecSoloLive == SpecSolo /\ WF_vars(SoloStep)

\* ------------------------------------------------ specification SpecStore
\* the commands of loadState and saveState one at a time: the two GETs and
\* the two SETEXs are separate commands on the worker's connection, the
\* pipeline key first, and the broker runs the commands of other
\* connections between them
GetPipeline(t) ==
  LET r == th[t]
      s == RawPoint(r.cur).sensorId
  IN /\ r.pc = "get"
     /\ Upd(t, [r EXCEPT !.pc = "get_app", !.blobIn = blobStore[s]])
     /\ UNCHANGED <<pass, stage, sse, pipe, topo, feed, stopSnap, brokerVars, storeVars, channel, workerVars,
                    ghostVars, boundVars>>

GetApp(t) ==
  LET r  == th[t]
      w  == t[1]
      p  == RawPoint(r.cur)
      st == LoadedAppState(appStore[p.sensorId])
  IN /\ r.pc = "get_app"
     /\ engine' = [engine EXCEPT ![w] = EngineAfterLoad(engine[w], r.blobIn)]
     /\ Upd(t, [r EXCEPT !.pc = "process",
                         !.appIn = appStore[p.sensorId],
                         !.app = IF st.lastTimestamp = 0
                                 THEN createInitialState(p.lat, p.lon, p.timestamp)
                                 ELSE st])
     /\ entered' = entered \cup {r.cur}
     /\ UNCHANGED <<pass, stage, sse, pipe, topo, feed, stopSnap, brokerVars, storeVars, channel, running, timerSet,
                    savedFor, fatal, boundVars>>

SetexPipeline(t) ==
  LET r == th[t]
      s == RawPoint(r.cur).sensorId
  IN /\ r.pc = "setex"
     /\ blobStore' = [blobStore EXCEPT ![s] = r.blobOut]
     /\ ttl' = [ttl EXCEPT ![s].blob = SetexTtl]
     /\ Upd(t, [r EXCEPT !.pc = "setex_app"])
     /\ UNCHANGED <<pass, stage, sse, pipe, topo, feed, stopSnap, brokerVars, appStore, channel, workerVars,
                    ghostVars, boundVars>>

SetexApp(t) ==
  LET r == th[t]
      s == RawPoint(r.cur).sensorId
  IN /\ r.pc = "setex_app"
     /\ appStore' = [appStore EXCEPT ![s] = Some(serializeAppState(r.app))]
     /\ ttl' = [ttl EXCEPT ![s].app = SetexTtl]
     /\ savedFor' = savedFor \cup {r.cur}
     /\ Upd(t, [r EXCEPT !.pc = "publish"])
     /\ UNCHANGED <<pass, stage, sse, pipe, topo, feed, stopSnap, brokerVars, blobStore, channel, workerVars,
                    entered, fatal, boundVars>>

\* replays of fixes only
StoreFeeds ==
  {f \in SoloFeeds : \A m \in Msgs : f[m].lat # <<>>}

InitStore == InitFeeds(StoreFeeds)

\* SpecStore: two workers, no failure, the store commands one at a time
NextStore ==
  \/ Produce
  \/ \E w \in Workers : Start(w)
  \/ \E w \in Workers : InitializeConsumerGroup(w)
  \/ \E w \in Workers : ListPending(Main(w))
  \/ \E w \in Workers : StartLoop(w)
  \/ \E w \in Workers : ReadBatch(w)
  \/ \E w \in Workers : GetPipeline(Main(w))
  \/ \E w \in Workers : GetApp(Main(w))
  \/ \E w \in Workers : Process(Main(w))
  \/ \E w \in Workers : SetexPipeline(Main(w))
  \/ \E w \in Workers : SetexApp(Main(w))
  \/ \E w \in Workers : Publish(Main(w))
  \/ \E w \in Workers : Ack(Main(w))

SpecStore == InitStore /\ [][NextStore]_vars


\* ------------------------------------------------- specification SpecStop
\* stop(), called by a signal handler: the flag is cleared, the interval is
\* cleared and QUIT is queued behind the command the chain is waiting for.
\* A handler runs between two continuations, never inside one
Stop(w) ==
  /\ th[Main(w)].pc \notin {"dead", "stopped", "start_loop"}
  /\ stopSnap[w] = Absent
  /\ stopSnap' = [stopSnap EXCEPT ![w] = Some(th[Main(w)])]
  /\ running' = [running EXCEPT ![w] = FALSE]
  /\ timerSet' = [timerSet EXCEPT ![w] = FALSE]
  /\ UNCHANGED <<pass, stage, sse, pipe, topo, feed, brokerVars, storeVars, channel, engine, th,
                 ghostVars, boundVars>>

\* the command the main chain of w waits for was sent before the QUIT of
\* stop() (or the chain waits for no command): its reply arrives. Commands
\* sent after QUIT are never executed
Answered(w) ==
  IF stopSnap[w] = Absent THEN TRUE
  ELSE th[Main(w)] = stopSnap[w][1] \/ th[Main(w)].pc = "start_loop"

\* QUIT is answered, stop() returns and the handler calls process.exit(0)
Exit(w) ==
  /\ stopSnap[w] # Absent
  /\ th[Main(w)].pc # "dead"
  /\ Gone(w)
  /\ UNCHANGED <<pass, stage, sse, pipe, topo, feed, stopSnap, brokerVars, storeVars, channel, entered,
                 savedFor, boundVars>>

\* the blocking read times out with no message: continue
ReadNothing(w) ==
  /\ th[Main(w)].pc = "xreadgroup"
  /\ Len(ReadReply) = 0
  /\ Upd(Main(w), LoopHead(running[w]))
  /\ UNCHANGED <<pass, stage, sse, pipe, topo, feed, stopSnap, brokerVars, storeVars, channel,
                 workerVars, ghostVars, boundVars>>

\* SpecStop: workers that are started once and stopped by a signal at any
\* point of startup, recovery, a blocking read or a batch; no failure
WorkerStep(w) ==
  \/ InitializeConsumerGroup(w)
  \/ ListPending(Main(w))
  \/ StartLoop(w)
  \/ ReadBatch(w)
  \/ ReadNothing(w)
  \/ AckInvalid(Main(w))
  \/ LoadState(Main(w))
  \/ Process(Main(w))
  \/ SaveState(Main(w))
  \/ Publish(Main(w))
  \/ Ack(Main(w))

NextStop ==
  \/ Produce
  \/ \E w \in Workers : stopSnap[w] = Absent /\ Start(w)
  \/ \E w \in Workers : Answered(w) /\ WorkerStep(w)
  \/ \E w \in Workers : Stop(w)
  \/ \E w \in Workers : Exit(w)

SpecStop == Init /\ [][NextStop]_vars


\* ------------------------------------------------ specification SpecDelay
\* time in steps of MinIdleMs, counted in ticks from the moment w1 armed
\* its interval; a chain's steps take no time at this scale
PeriodTicks == CleanupPeriodMs \div MinIdleMs

Quiet ==
  /\ \A w \in Workers : th[Main(w)].pc \in {"xreadgroup", "dead"}
  /\ \A w \in Workers : th[Timer(w)].pc \in {"idle", "off"}
  /\ lastDelivered = streamLen

\* MinIdleMs pass: nothing is left to do at this instant and no firing of
\* the interval is due
TickDelay ==
  /\ running["w1"]
  /\ Quiet
  /\ timerFires = ticks \div PeriodTicks
  /\ ticks < MaxClock
  /\ ticks' = ticks + 1
  /\ pel' = [m \in Msgs |->
               IF Pending(m) THEN [pel[m] EXCEPT !.idle = @ + MinIdleMs]
               ELSE pel[m]]
  /\ UNCHANGED <<pass, stage, sse, pipe, topo, feed, stopSnap, streamLen, groupExists, lastDelivered,
                 acked, storeVars, channel, workerVars, th, ghostVars, faults,
                 timerFires>>

\* the interval of w1 fires, CleanupPeriodMs after it was armed or fired
TimerFireDelay ==
  /\ timerSet["w1"]
  /\ th[Timer("w1")].pc = "idle"
  /\ timerFires < ticks \div PeriodTicks
  /\ timerFires' = timerFires + 1
  /\ Upd(Timer("w1"), OnTimer(running["w1"]))
  /\ UNCHANGED <<pass, stage, sse, pipe, topo, feed, stopSnap, brokerVars, storeVars, channel,
                 workerVars, ghostVars, faults, ticks>>

\* SpecDelay: w1 keeps running with its interval; w2 is started once and
\* killed between a read and its ack
NextDelay ==
  \/ Produce
  \/ TickDelay
  \/ TimerFireDelay
  \/ Start("w1")
  \/ faults = 0 /\ Start("w2")
  \/ th[Main("w2")].pc \in PmPcs /\ Crash("w2")
  \/ \E w \in Workers : MainStep(w)
  \/ \E t \in Threads : ChainStep(t)

SpecDelay == Init /\ [][NextDelay]_vars


\* ------------------------------------------------- specification SpecPipe
\* the numbers of one sensor's data path. Times are in ms, positions on a
\* small grid of degrees, distances in m, velocities in mm/s
Lats == {0, 1}
Stamps == {2000, 2500, 3000}
Points == [lat : Lats, lon : {0}, timestamp : Stamps]

\* what the velocity pipeline of the DSP engine hands back as the last
\* element of its output: a number of mm/s, or nothing usable
FilterOutputs == {NaN, MOVEMENT_THRESHOLD, MOVEMENT_THRESHOLD + 1}

\* haversineDistance, in m, on the grid: a distance, zero between equal
\* positions
Abs(x) == IF x < 0 THEN -x ELSE x
haversineDistance(lat1, lon1, lat2, lon2) == Abs(lat2 - lat1) + Abs(lon2 - lon1)

createInitialAppState(lat, lon, timestamp) ==
  [velocityBuffer |-> [i \in 1..VELOCITY_WINDOW_SIZE |-> 0],
   velocityIndex |-> 0, lastTimestamp |-> timestamp,
   prevLat |-> lat, prevLon |-> lon]

\* a Buffer: its length and the values written into it, each at its
\* offset with its width in bytes
WriteAt(cells, off, width, val) ==
  Append(cells, [off |-> off, width |-> width, val |-> val])

\* a read gives back what was written at that offset with that width
ReadAt(buf, off, width) ==
  IF \E i \in 1..Len(buf.cells) :
       buf.cells[i].off = off /\ buf.cells[i].width = width
  THEN LET i == CHOOSE j \in 1..Len(buf.cells) :
                  buf.cells[j].off = off /\ buf.cells[j].width = width
       IN buf.cells[i].val
  ELSE NaN

RECURSIVE WriteDoubles(_, _, _, _)
WriteDoubles(cells, vals, i, off) ==
  IF i > Len(vals) THEN cells
  ELSE WriteDoubles(WriteAt(cells, off, 8, vals[i]), vals, i + 1, off + 8)

\* writeUInt32LE takes 0 .. 2^32 - 1, which every number of the model that
\* is not negative fits in, and refuses the rest
UInt32(x) == IF x < 0 THEN NaN ELSE x

\* (mutant) the reader skips 8 bytes after the offset of velocityIndex
AfterIndexWide(off) == off + 8

\* offset += 4 after readUInt32LE
AfterIndex(off) == off + 4

\* the 68-byte record: 5 doubles, a uint32, 3 doubles
serializeAppStateBytes(st) ==
  LET o1 == VELOCITY_WINDOW_SIZE * 8
      c1 == WriteDoubles(<<>>, st.velocityBuffer, 1, 0)
      c2 == WriteAt(c1, o1, 4, UInt32(st.velocityIndex))
      c3 == WriteAt(c2, o1 + 4, 8, st.lastTimestamp)
      c4 == WriteAt(c3, o1 + 12, 8, st.prevLat)
      c5 == WriteAt(c4, o1 + 20, 8, st.prevLon)
  IN [len |-> APP_STATE_BYTES, cells |-> c5]

deserializeAppStateBytes(buf) ==
  LET o1 == VELOCITY_WINDOW_SIZE * 8
      o2 == AfterIndex(o1)
  IN [velocityBuffer |-> [i \in 1..VELOCITY_WINDOW_SIZE |->
                            ReadAt(buf, (i - 1) * 8, 8)],
      velocityIndex |-> ReadAt(buf, o1, 4),
      lastTimestamp |-> ReadAt(buf, o2, 8),
      prevLat |-> ReadAt(buf, o2 + 8, 8),
      prevLon |-> ReadAt(buf, o2 + 16, 8)]

\* (mutant) any stored record is decoded
UsableAlways(appBuffer) == appBuffer # <<>>

\* loadState decodes a record of exactly 68 bytes
Usable(appBuffer) ==
  IF appBuffer = <<>> THEN FALSE ELSE appBuffer[1].len = APP_STATE_BYTES

\* loadState: the app state for the reply of GET gps:app:{sensor}
loadAppState(appBuffer) ==
  IF Usable(appBuffer) THEN deserializeAppStateBytes(appBuffer[1])
  ELSE ZeroSensorState

\* the older state manager's 212-byte record: x (4 doubles), P (16
\* doubles), the velocity window, a uint32, a double
serializeState(st) ==
  LET c1 == WriteDoubles(<<>>, st.x, 1, 0)
      c2 == WriteDoubles(c1, st.P, 1, 32)
      c3 == WriteDoubles(c2, st.velocityBuffer, 1, 160)
      c4 == WriteAt(c3, 200, 4, UInt32(st.velocityIndex))
      c5 == WriteAt(c4, 204, 8, st.lastTimestamp)
  IN [len |-> OLD_STATE_BYTES, cells |-> c5]

deserializeState(buf) ==
  [x |-> [i \in 1..4 |-> ReadAt(buf, (i - 1) * 8, 8)],
   P |-> [i \in 1..16 |-> ReadAt(buf, 32 + (i - 1) * 8, 8)],
   velocityBuffer |-> [i \in 1..VELOCITY_WINDOW_SIZE |->
                         ReadAt(buf, 160 + (i - 1) * 8, 8)],
   velocityIndex |-> ReadAt(buf, 200, 4),
   lastTimestamp |-> ReadAt(buf, 204, 8)]

\* the older loadState: null unless the record has 212 bytes
loadStateOld(buffer) ==
  IF buffer = <<>> THEN <<>>
  ELSE IF buffer[1].len # OLD_STATE_BYTES THEN <<>>
  ELSE <<deserializeState(buffer[1])>>

\* the time delta of a call of process, in ms: since the state's last
\* timestamp, or the default of the version for a state without one
Dt(ver, point, state) ==
  IF state.lastTimestamp > 0 THEN point.timestamp - state.lastTimestamp
  ELSE IF ver = "000" THEN DefaultDtMs ELSE DefaultDtMs001

\* the time vector process hands to the position pipeline
PositionDeltas(ver, point, state) ==
  <<Dt(ver, point, state), Dt(ver, point, state)>>

\* the time vector process hands to the velocity pipeline: the delta for
\* every sample (part_000), or timestamps one second apart that end at the
\* timestamp of the fix (part_001)
VelocityDeltas(ver, point, state) ==
  [i \in 1..VELOCITY_WINDOW_SIZE |->
     IF ver = "000" THEN Dt(ver, point, state)
     ELSE point.timestamp - (VELOCITY_WINDOW_SIZE - i) * 1000]

\* (mutant) the guard lets a negative delta through
InstantVelocityUnguarded(distance, dt) ==
  IF dt > 0 THEN (distance * 1000000) \div dt
  ELSE IF dt < 0 THEN 0 - ((distance * 1000000) \div (0 - dt))
  ELSE 0

\* distance / dt when dt > 0, else 0; m over ms, in mm/s
InstantVelocity(distance, dt) ==
  IF dt > 0 THEN (distance * 1000000) \div dt ELSE 0

\* result[result.length - 1] || 0
OrZero(x) == IF x = NaN THEN 0 ELSE x

\* (mutant) the threshold itself counts as moving
IsMovingAtLeast(smoothedVelocity) == smoothedVelocity >= MOVEMENT_THRESHOLD

\* smoothedVelocity > MOVEMENT_THRESHOLD
IsMoving(smoothedVelocity) == smoothedVelocity > MOVEMENT_THRESHOLD

\* (mutant) the index runs on without wrapping
NextIndexNoWrap(i) == i + 1

\* the circular buffer's index after a write
NextIndex(i) == (i + 1) % VELOCITY_WINDOW_SIZE

\* GPSPipeline.process for a fix and a state, with what the two pipelines
\* of the DSP engine hand back: the smoothed position and the last output
\* of the moving average
process(ver, point, state, smoothedLat, out) ==
  LET dt       == Dt(ver, point, state)
      distance == haversineDistance(state.prevLat, state.prevLon,
                                    smoothedLat, point.lon)
      v        == InstantVelocity(distance, dt)
      window   == [state.velocityBuffer EXCEPT ![state.velocityIndex + 1] = v]
      sv       == OrZero(out)
  IN [positionDeltas |-> PositionDeltas(ver, point, state),
      velocityDeltas |-> VelocityDeltas(ver, point, state),
      result |-> [lat |-> point.lat, lon |-> point.lon,
                  timestamp |-> point.timestamp,
                  smoothedLat |-> smoothedLat, smoothedLon |-> point.lon,
                  velocity |-> v, smoothedVelocity |-> sv,
                  isMoving |-> IsMoving(sv)],
      newState |-> [velocityBuffer |-> window,
                    velocityIndex |-> NextIndex(state.velocityIndex),
                    lastTimestamp |-> point.timestamp,
                    prevLat |-> smoothedLat, prevLon |-> point.lon]]

\* a state with a full velocity window, its index at the last slot
FullState ==
  [velocityBuffer |-> [i \in 1..VELOCITY_WINDOW_SIZE |-> 1000 * i],
   velocityIndex |-> VELOCITY_WINDOW_SIZE - 1, lastTimestamp |-> 2000,
   prevLat |-> 1, prevLon |-> 0]

InitialStates == {ZeroSensorState, createInitialAppState(1, 0, 2500), FullState}

InitPipe ==
  /\ streamLen = 0
  /\ groupExists = FALSE
  /\ lastDelivered = 0
  /\ pel = [m \in Msgs |-> NoEntry]
  /\ appStore = [s \in Sensors |-> Absent]
  /\ blobStore = [s \in Sensors |-> Absent]
  /\ ttl = [s \in Sensors |-> NoTtl]
  /\ channel = <<>>
  /\ running = [w \in Workers |-> FALSE]
  /\ timerSet = [w \in Workers |-> FALSE]
  /\ engine = [w \in Workers |-> FreshEngine]
  /\ th = [t \in Threads |-> IF t[2] = "main" THEN Off("dead") ELSE Off("off")]
  /\ acked = {}
  /\ entered = {}
  /\ savedFor = {}
  /\ fatal = {}
  /\ faults = 0
  /\ timerFires = 0
  /\ ticks = 0
  /\ topo = NoTopo
  /\ feed = Replay
  /\ stopSnap = [w \in Workers |-> Absent]
  /\ pipe \in {PipeStart(v, "worker", ZeroSensorState) : v \in {"000", "001"}}
             \cup {PipeStart(v, "batch", s) :
                     v \in {"000", "001"}, s \in InitialStates}
  /\ sse = NoSse
  /\ stage = NoStage
  /\ pass = NoPass

restOfSse == <<streamLen, groupExists, lastDelivered, pel, appStore, blobStore,
               ttl, channel, running, timerSet, engine, th, acked, entered,
               savedFor, fatal, faults, timerFires, ticks, topo, feed, stopSnap,
               stage, pass>>

restOfPipe == <<streamLen, groupExists, lastDelivered, pel, appStore, blobStore,
                ttl, channel, running, timerSet, engine, th, acked, entered,
                savedFor, fatal, faults, timerFires, ticks, topo, feed, stopSnap,
                sse, stage, pass>>

\* processMessage: loadState for the sensor of the fix, and a state
\* created from the fix when the loaded one has no last timestamp
PipeLoad ==
  /\ pipe.caller = "worker" /\ pipe.phase = "idle" /\ pipe.calls < MaxCalls
  /\ \E p \in Points :
       LET st == loadAppState(pipe.stored)
       IN pipe' = [pipe EXCEPT
                     !.phase = "loaded", !.point = <<p>>,
                     !.load = <<[from |-> pipe.stored, got |-> st]>>,
                     !.state = IF st.lastTimestamp = 0
                               THEN createInitialAppState(p.lat, p.lon, p.timestamp)
                               ELSE st]
  /\ UNCHANGED restOfPipe

\* processBatch: the loop takes its next point, the state is the one the
\* previous call returned
PipeTake ==
  /\ pipe.caller = "batch" /\ pipe.phase = "idle" /\ pipe.calls < MaxCalls
  /\ \E p \in Points : pipe' = [pipe EXCEPT !.phase = "loaded", !.point = <<p>>]
  /\ UNCHANGED restOfPipe

\* the call of process returns
PipeProcess ==
  /\ pipe.phase = "loaded"
  /\ \E sm \in Lats, out \in FilterOutputs :
       LET r == process(pipe.ver, pipe.point[1], pipe.state, sm, out)
       IN pipe' = [pipe EXCEPT
                     !.phase = IF pipe.caller = "worker" THEN "processed"
                               ELSE "idle",
                     !.state = r.newState,
                     !.calls = @ + 1,
                     !.last = <<[before |-> pipe.state,
                                 after |-> r.newState,
                                 positionDeltas |-> r.positionDeltas,
                                 velocityDeltas |-> r.velocityDeltas,
                                 result |-> r.result]>>]
  /\ UNCHANGED restOfPipe

\* saveState writes the record of the new state
PipeSave ==
  /\ pipe.phase = "processed"
  /\ pipe' = [pipe EXCEPT !.phase = "idle",
                          !.stored = <<serializeAppStateBytes(pipe.state)>>]
  /\ UNCHANGED restOfPipe

\* the stored record is cut short or replaced by one of another size
PipeCorrupt ==
  /\ pipe.phase = "idle" /\ Usable(pipe.stored)
  /\ \E n \in {40, OLD_STATE_BYTES} :
       pipe' = [pipe EXCEPT !.stored = <<[pipe.stored[1] EXCEPT !.len = n]>>]
  /\ UNCHANGED restOfPipe

NextPipe == PipeLoad \/ PipeTake \/ PipeProcess \/ PipeSave \/ PipeCorrupt

SpecPipe == InitPipe /\ [][NextPipe]_vars


\* VelocityCalculatorWorker.processMessage: 0 for a sensor without state,
\* else the distance from the last smoothed position over the time since
\* the last timestamp
velocityCalc(state, lat, lon, timestamp) ==
  IF state = <<>> THEN 0
  ELSE InstantVelocity(haversineDistance(state[1].lastLat, state[1].lastLon,
                                         lat, lon),
                       timestamp - state[1].lastTimestamp)

\* -------------------------------------------------- failing batch reads
\* XREADGROUP throws once more (the connection is down, the server is
\* loading): the catch of the loop
FailReadAgain(w) ==
  /\ th[Main(w)].pc = "xreadgroup"
  /\ faults < MaxReadFailures
  /\ faults' = faults + 1
  /\ Upd(Main(w), CatchInLoop)
  /\ UNCHANGED <<pass, stage, sse, pipe, topo, feed, stopSnap, brokerVars, storeVars, channel,
                 workerVars, ghostVars, timerFires, ticks>>

\* SpecRead: the workers of SpecStop, whose batch reads fail any number of
\* times in a row up to MaxReadFailures
NextRead ==
  \/ NextStop
  \/ \E w \in Workers : Answered(w) /\ FailReadAgain(w)
  \/ \E w \in Workers : WakeUp(w)

SpecRead == Init /\ [][NextRead]_vars

\* ---------------------------------------------------- event-stream server
\* startRedisSubscription: SUBSCRIBE gps:processed is confirmed
Subscribe ==
  /\ ~sse.subscribed
  /\ sse' = [sse EXCEPT !.subscribed = TRUE]
  /\ UNCHANGED <<pipe, restOfSse>>

\* the responses registered at the moment
Connected == sse.allClients \cup UNION {sse.clients[s] : s \in Sensors}

\* GET /api/gps-stream with query: <<>> without sensorId, <<s>> with
\* ?sensorId=s; the response goes to the set of its sensor or to allClients
Connect(c, query) ==
  /\ sse.life[c] \in {"none", "closed"}
  /\ sse' = [sse EXCEPT
               !.clients = IF query # <<>>
                           THEN [@ EXCEPT ![query[1]] = @ \cup {c}] ELSE @,
               !.keys = IF query # <<>> THEN @ \cup {query[1]} ELSE @,
               !.allClients = IF query # <<>> THEN @ ELSE @ \cup {c},
               !.life[c] = "open",
               !.filter[c] = query,
               !.sent[c] = <<>>,
               !.since[c] = Len(sse.heard)]
  /\ UNCHANGED <<pipe, restOfSse>>

\* (mutant) the responses leave the set and the entry stays in the Map
ForgetKeepsKey(reg, s, gone) ==
  [reg EXCEPT !.clients[s] = @ \ gone]

\* the responses in gone are deleted from the set of sensor s, and the
\* entry of s is deleted from the Map when the set is left empty
Forget(reg, s, gone) ==
  LET left == reg.clients[s] \ gone
  IN [reg EXCEPT !.clients[s] = left,
                 !.keys = IF left = {} THEN @ \ {s} ELSE @]

\* req.on("close") of a response that connected and has not closed: it is
\* deleted from the set of its sensorId if the Map has one, or from
\* allClients
Close(c) ==
  /\ sse.life[c] \in {"open", "failed"}
  /\ LET f == sse.filter[c]
         reg == IF f = <<>> THEN [sse EXCEPT !.allClients = @ \ {c}]
                ELSE IF f[1] \in sse.keys THEN Forget(sse, f[1], {c})
                ELSE sse
     IN sse' = [reg EXCEPT !.life[c] = "closed"]
  /\ UNCHANGED <<pipe, restOfSse>>

\* a worker publishes a result of sensor sensorId on gps:processed (""
\* for a message without sensorId); a subscriber that is not subscribed
\* yet misses it
PublishResult(sensorId) ==
  /\ sse.published < MaxResults
  /\ LET msg == [sensorId |-> sensorId, seq |-> sse.published + 1] IN
     sse' = [sse EXCEPT !.published = @ + 1,
                        !.inbox = IF sse.subscribed THEN Append(@, msg)
                                  ELSE @]
  /\ UNCHANGED <<pipe, restOfSse>>

\* (mutant) every message goes to every response
RecipientsEveryone(sensorId) == Connected

\* the responses a message of sensorId is written to: clients.get(sensorId)
\* and allClients
Recipients(sensorId) == sse.clients[sensorId] \cup sse.allClients

\* subscriber.on("message"): parse, skip a message without sensorId, write
\* it to the responses of its sensor and to allClients; a response whose
\* write throws (failing) is deleted from the set it was found in
OnMessage(failing) ==
  /\ sse.inbox # <<>>
  /\ LET msg == Head(sse.inbox)
         to == IF msg.sensorId = "" THEN {} ELSE Recipients(msg.sensorId)
         bad == to \cap failing
         inSet == IF msg.sensorId = "" THEN {}
                  ELSE sse.clients[msg.sensorId] \cap failing
         reg == IF inSet = {} THEN sse ELSE Forget(sse, msg.sensorId, inSet)
         after == [reg EXCEPT !.allClients = @ \ bad]
     IN sse' = [after EXCEPT
                  !.life = [c \in Clients |->
                              IF c \in bad THEN "failed" ELSE @[c]],
                  !.inbox = Tail(@),
                  !.heard = Append(@, msg),
                  !.sent = [c \in Clients |->
                              IF c \in to \ failing THEN Append(@[c], msg)
                              ELSE @[c]]]
  /\ UNCHANGED <<pipe, restOfSse>>

\* SpecSse: the event-stream server with up to two browsers that connect
\* with or without a filter and disconnect, while results are published
NextSse ==
  \/ Subscribe
  \/ \E c \in Clients, q \in {<<>>} \cup {<<s>> : s \in Sensors} : Connect(c, q)
  \/ \E c \in Clients : Close(c)
  \/ \E s \in Sensors \cup {""} : PublishResult(s)
  \/ \E failing \in SUBSET Clients : OnMessage(failing)

SpecSse == Init /\ [][NextSse]_vars

\* ------------------------------------------------------ forwarding stages
\* (mutant) a stage acknowledges its input before it appends its output
StagePmNextAckFirst(pcv) ==
  CASE pcv = "engine" -> "xack"
    [] pcv = "xack"   -> "xadd"
    [] pcv = "xadd"   -> "return"

\* the awaited steps of a stage's processMessage for a valid message:
\* pipeline.process (the smoother only), XADD to the output stream, XACK
StagePmNext(pcv) ==
  CASE pcv = "engine" -> "xadd"
    [] pcv = "xadd"   -> "xack"
    [] pcv = "xack"   -> "return"

\* the first awaited step of a valid message: the velocity calculator
\* awaits nothing before its XADD
StageFirst(kind) == IF kind = "smoother" THEN "engine" ELSE StagePmNext("engine")

\* processMessage of a stage worker is entered for message m
StageBegin(r, m) ==
  [r EXCEPT !.pc = IF IsInvalid(RawPoint(m)) THEN "xack_invalid"
                   ELSE StageFirst(stage.kind),
            !.cur = m]

\* the for loop over the batch of a stage worker moves on
StageNextInBatch(r, run) ==
  IF Len(r.batch) > 1
  THEN StageBegin([r EXCEPT !.batch = Tail(r.batch)], r.batch[2])
  ELSE LoopHead(run)

\* the chain of a stage worker after the awaited step at pcv
StageAfter(r, run) ==
  IF r.pc = "xack_invalid" \/ StagePmNext(r.pc) = "return"
  THEN StageNextInBatch(r, run)
  ELSE [r EXCEPT !.pc = StagePmNext(r.pc)]

InitForward ==
  /\ streamLen = 0
  /\ groupExists = FALSE
  /\ lastDelivered = 0
  /\ pel = [m \in Msgs |-> NoEntry]
  /\ appStore = [s \in Sensors |-> Absent]
  /\ blobStore = [s \in Sensors |-> Absent]
  /\ ttl = [s \in Sensors |-> NoTtl]
  /\ channel = <<>>
  /\ running = [w \in Workers |-> FALSE]
  /\ timerSet = [w \in Workers |-> FALSE]
  /\ engine = [w \in Workers |-> FreshEngine]
  /\ th = [t \in Threads |-> IF t[2] = "main" THEN Off("dead") ELSE Off("off")]
  /\ acked = {}
  /\ entered = {}
  /\ savedFor = {}
  /\ fatal = {}
  /\ faults = 0
  /\ timerFires = 0
  /\ ticks = 0
  /\ topo = NoTopo
  /\ feed = Replay
  /\ stopSnap = [w \in Workers |-> Absent]
  /\ pipe = NoPipe
  /\ sse = NoSse
  /\ stage \in {StageStart(k) : k \in {"smoother", "velocity"}}
  /\ pass = NoPass

\* start() of a stage worker: the group is created at the origin or found,
\* running = true, and the loop sends its first read; there is no recovery
\* pass and no timer
StageInitGroup(w) ==
  /\ th[Main(w)].pc = "xgroup"
  /\ groupExists' = TRUE
  /\ lastDelivered' = PositionAfterCreate
  /\ running' = [running EXCEPT ![w] = TRUE]
  /\ Upd(Main(w), LoopHead(TRUE))
  /\ UNCHANGED <<pass, stage, sse, pipe, topo, feed, stopSnap, streamLen, pel, acked,
                 storeVars, channel, timerSet, engine, ghostVars, boundVars>>

\* XREADGROUP ... > returns the never-delivered messages
StageRead(w) ==
  LET t == Main(w)
      b == ReadReply
  IN /\ th[t].pc = "xreadgroup"
     /\ Len(b) > 0
     /\ lastDelivered' = lastDelivered + Len(b)
     /\ pel' = [m \in Msgs |->
                  IF m > lastDelivered /\ m <= lastDelivered + Len(b)
                  THEN [owner |-> w, idle |-> 0] ELSE pel[m]]
     /\ Upd(t, StageBegin([th[t] EXCEPT !.batch = b], b[1]))
     /\ UNCHANGED <<pass, stage, sse, pipe, topo, feed, stopSnap, streamLen, groupExists,
                    acked, storeVars, channel, workerVars, ghostVars, boundVars>>

\* the awaited step of processMessage completes: the filter call, the XADD
\* of the output record, or the XACK of the input message
StageStep(w) ==
  LET t == Main(w)
      r == th[t]
  IN /\ r.pc \in {"xack_invalid", "engine", "xadd", "xack"}
     /\ stage' = IF r.pc = "xadd"
                 THEN [stage EXCEPT !.out = Append(@, [src |-> r.cur])]
                 ELSE stage
     /\ pel' = IF r.pc \in {"xack", "xack_invalid"}
               THEN [pel EXCEPT ![r.cur] = NoEntry] ELSE pel
     /\ acked' = IF r.pc \in {"xack", "xack_invalid"}
                 THEN acked \cup {r.cur} ELSE acked
     /\ Upd(t, StageAfter(r, running[w]))
     /\ UNCHANGED <<pass, sse, pipe, topo, feed, stopSnap, streamLen, groupExists,
                    lastDelivered, storeVars, channel, workerVars, ghostVars,
                    boundVars>>

\* the awaited step throws: the catch of the batch loop logs and goes on
StageThrow(w) ==
  /\ th[Main(w)].pc \in {"xack_invalid", "engine", "xadd", "xack"}
  /\ faults < MaxFaults
  /\ faults' = faults + 1
  /\ Upd(Main(w), StageNextInBatch(th[Main(w)], running[w]))
  /\ UNCHANGED <<pass, stage, sse, pipe, topo, feed, stopSnap, brokerVars, storeVars,
                 channel, workerVars, ghostVars, timerFires, ticks>>

\* the process of a stage worker is killed
StageCrash(w) ==
  /\ th[Main(w)].pc # "dead"
  /\ faults < MaxFaults
  /\ faults' = faults + 1
  /\ Gone(w)
  /\ UNCHANGED <<pass, stage, sse, pipe, topo, feed, stopSnap, brokerVars, storeVars,
                 channel, entered, savedFor, timerFires, ticks>>

\* what the workers of the stage do when left alone
StageRuns(w) ==
  \/ Start(w)
  \/ StageInitGroup(w)
  \/ StageRead(w)
  \/ StageStep(w)

\* SpecForward: the group of one forwarding stage with two workers that
\* are started, killed and restarted, and whose processMessage may throw
NextForward ==
  \/ Produce
  \/ \E w \in Workers : StageRuns(w)
  \/ \E w \in Workers : StageThrow(w)
  \/ \E w \in Workers : StageCrash(w)

SpecForward == InitForward /\ [][NextForward]_vars

\* the producer and every launched or relaunched worker keep going
SpecForwardLive ==
  SpecForward /\ WF_vars(Produce) /\ \A w \in Workers : WF_vars(StageRuns(w))

\* ------------------------------------------- a pass over a long pending list
\* a pending list of n entries whose k oldest are below the idle threshold
\* (in flight at running workers) and whose others have reached it
PendingList(n, k) == [i \in 1..n |-> IF i <= k THEN 0 ELSE MinIdleMs]

InitPass ==
  /\ streamLen = 0
  /\ groupExists = FALSE
  /\ lastDelivered = 0
  /\ pel = [m \in Msgs |-> NoEntry]
  /\ appStore = [s \in Sensors |-> Absent]
  /\ blobStore = [s \in Sensors |-> Absent]
  /\ ttl = [s \in Sensors |-> NoTtl]
  /\ channel = <<>>
  /\ running = [w \in Workers |-> FALSE]
  /\ timerSet = [w \in Workers |-> FALSE]
  /\ engine = [w \in Workers |-> FreshEngine]
  /\ th = [t \in Threads |-> IF t[2] = "main" THEN Off("dead") ELSE Off("off")]
  /\ acked = {}
  /\ entered = {}
  /\ savedFor = {}
  /\ fatal = {}
  /\ faults = 0
  /\ timerFires = 0
  /\ ticks = 0
  /\ topo = NoTopo
  /\ feed = Replay
  /\ stopSnap = [w \in Workers |-> Absent]
  /\ pipe = NoPipe
  /\ sse = NoSse
  /\ stage = NoStage
  /\ pass \in {PassStart(PendingList(n, k)) :
                 n \in 0..MaxPending, k \in {0, 1, 2, PendingCount}}

restOfPass == <<streamLen, groupExists, lastDelivered, pel, appStore, blobStore,
                ttl, channel, running, timerSet, engine, th, acked, entered,
                savedFor, fatal, faults, timerFires, ticks, topo, feed, stopSnap,
                pipe, sse, stage>>

\* XPENDING gps:raw gps-workers - + 100: the oldest entries, up to the count
PassList ==
  /\ pass.phase = "xpending"
  /\ LET n == Min(Len(pass.entries), PendingCount)
         reply == [i \in 1..n |-> [id |-> i, idle |-> pass.entries[i]]]
     IN pass' = [pass EXCEPT !.reply = reply,
                             !.phase = IF n = 0 THEN "done" ELSE "loop"]
  /\ UNCHANGED restOfPass

\* one turn of the for loop: an entry below the threshold is passed over,
\* for any other the XCLAIM is sent; whatever comes of it (claimed and
\* processed, an empty reply, a throw into the inner catch), the loop
\* goes on with the next entry of the reply
PassEntry ==
  /\ pass.phase = "loop"
  /\ LET e == Head(pass.reply)
         rest == Tail(pass.reply)
     IN pass' = [pass EXCEPT
                   !.reply = rest,
                   !.attempted = IF SkipEntry(e.idle) THEN @ ELSE @ \cup {e.id},
                   !.phase = IF rest = <<>> THEN "done" ELSE "loop"]
  /\ UNCHANGED restOfPass

\* SpecPass: one recovery pass over pending lists of 0 to MaxPending entries
NextPass == PassList \/ PassEntry

SpecPass == InitPass /\ [][NextPass]_vars

TypeOK ==
  /\ streamLen \in 0..NumMsgs
  /\ lastDelivered \in 0..streamLen
  /\ \A m \in Msgs : pel[m].owner \in Workers \cup {None}
  /\ \A t \in Threads : th[t].pc \in
       PmPcs \cup {"dead", "off", "idle", "xgroup", "xpending", "xclaim",
                   "start_loop", "xreadgroup", "sleep", "stopped",
                   "engine", "xadd", "xack", "xack_invalid", "return"}

\* ------------------------------------------------------------ properties
PublishedFor(m) == \E i \in 1..Len(channel) : channel[i].messageId = m

InProcess(r, m) == r.pc \in PmPcs /\ r.cur = m

\* a record is malformed when its sensorId is missing or one of lat, lon,
\* timestamp is not the text of a number
Malformed(m) ==
  \/ Fields(m).sensorId = ""
  \/ \E f \in {Fields(m).lat, Fields(m).lon, Fields(m).timestamp} : f = <<>>

\* C1: a valid message is acknowledged only after its state save and the
\* publish of its result have both completed
C1_AckAfterSaveAndPublish ==
  \A m \in acked : ~Malformed(m) => m \in savedFor /\ PublishedFor(m)

C1_Witness ==
  \E m \in acked : ~Malformed(m) /\ m \in savedFor /\ PublishedFor(m)

C10_SameDeltaAndPrevious ==
  \A i \in 1..Min(Len(topo.worker.out), Len(topo.velocity.out)) :
    /\ topo.worker.out[i].filterDt = topo.velocity.out[i].filterDt
    /\ topo.worker.out[i].velocity = topo.velocity.out[i].velocity

\* C3 (as claimed): no message is inside processMessage in two workers at
\* the same time
C3_DisjointInFlight ==
  \A t1, t2 \in Threads :
    t1[1] # t2[1] /\ th[t1].pc \in PmPcs /\ th[t2].pc \in PmPcs
      => th[t1].cur # th[t2].cur

\* C4 (as claimed): a recovery pass never has a claim in flight for a
\* pending entry that has been idle for less than the threshold
C4_NoClaimIssuedBelowThreshold ==
  \A t \in Threads :
    th[t].pc = "xclaim" /\ Pending(th[t].cur)
      => pel[th[t].cur].idle >= MinIdleMs

\* C4 (amended): a recovery pass issues a claim only for an entry whose
\* listed idle time reached the threshold, and it obtains and processes an
\* entry only if the entry is idle for at least the threshold when the
\* broker executes the claim
C4_ClaimOnlyIdleEntries ==
  /\ [](\A t \in Threads : th[t].pc = "xclaim" => th[t].listedIdle >= MinIdleMs)
  /\ [][\A t \in Threads :
          th[t].pc = "xclaim" /\ th'[t].pc \in PmPcs
            => Pending(th[t].cur) /\ pel[th[t].cur].idle >= MinIdleMs]_vars

\* a pass that skipped a fresh entry is claiming an idle one
C4_Witness ==
  \E t \in Threads : th[t].pc \in PmPcs /\ th[t].mode = "recover"
                     /\ th[t].skipped > 0

\* C5: once a message is acknowledged it never becomes a pending entry
\* again, and no recovery pass starts processing it
C5_NoDeliveryAfterAck ==
  [][\A m \in acked :
       /\ ~Pending(m)'
       /\ \A t \in Threads :
            InProcess(th'[t], m) /\ ~InProcess(th[t], m)
              => th'[t].mode = "batch"]_vars

\* a pass listed the entry, its owner acknowledged it, the claim is in flight
C5_Witness ==
  \E t \in Threads : th[t].pc = "xclaim" /\ th[t].cur \in acked

\* C6 (as claimed): the position filter runs with the blob loaded for the
\* sensor, or with the fresh state when the sensor has no blob
C6_PerSensorFilterState ==
  \A t \in Threads :
    th[t].pc = "process"
      => engine[t[1]] = IF th[t].blobIn = Absent THEN FreshEngine
                        ELSE th[t].blobIn[1]

C8_ConfigErrorIsFatal ==
  \A w \in fatal : th[Main(w)].pc = "dead"

\* C9: a throw of processMessage in the batch loop acknowledges nothing,
\* leaves the pending entries as they are, and the loop goes on with the
\* next message of the batch, or with the next read after the last one
C9_ErrorsIsolated ==
  [][\A w \in Workers :
       LET r == th[Main(w)]
           q == th'[Main(w)]
       IN r.mode = "batch" /\ r.pc \in PmPcs /\ faults' = faults + 1
          /\ q # r /\ q.pc # "dead"
          => /\ acked' = acked /\ pel' = pel
             /\ Pending(r.cur) \/ r.cur \in acked
             /\ IF Len(r.batch) > 1
                THEN InProcess(q, r.batch[2]) /\ q.batch = Tail(r.batch)
                ELSE q.pc = "xreadgroup"]_vars

\* the loop is at a later message of a batch in which a message threw
C9_Witness ==
  \E w \in Workers : th[Main(w)].pc \in PmPcs /\ th[Main(w)].thrown > 0

\* the last fix of the same sensor before fix i, 0 when there is none
PrevFix(i) ==
  LET js == {j \in 1..(i - 1) : topo.fixes[j].sensorId = topo.fixes[i].sensorId}
  IN IF js = {} THEN 0 ELSE CHOOSE j \in js : \A k \in js : k <= j

\* C11 (as claimed): in the stage workers every fix of a sensor after its
\* first is processed with the state its previous fix produced: the position
\* smoother measures the time delta from the previous fix, the velocity
\* calculator measures the velocity from the previous smoothed position
C11_StageStateSurvives ==
  /\ \A i \in 1..Len(topo.smoother.out) :
       PrevFix(i) # 0 =>
         topo.smoother.out[i].filterDt =
           topo.fixes[i].timestamp - topo.fixes[PrevFix(i)].timestamp
  /\ \A i \in 1..Len(topo.velocity.out) :
       PrevFix(i) # 0 =>
         topo.velocity.out[i].velocity =
           [zero |-> FALSE, from |-> topo.smoother.out[PrevFix(i)].smoothed,
            dt |-> topo.fixes[i].timestamp - topo.fixes[PrevFix(i)].timestamp]


\* the chain has loaded the state for its message and found neither key
FoundNothing(r) ==
  /\ r.pc \in {"process", "setex", "setex_app", "publish", "xack"}
  /\ r.appIn = Absent /\ r.blobIn = Absent

\* an earlier fix of the sensor of message m was saved
SavedBefore(m) ==
  \E k \in savedFor : k < m /\ RawPoint(k).sensorId = RawPoint(m).sensorId

\* C12: every save of a sensor's state leaves both of its keys with a fresh
\* life of STATE_TTL seconds; and a load that finds the keys gone (expired
\* or never written) yields the not-found state, from which the fix is
\* processed without error exactly as a first fix: the state is created
\* from the fix itself and the fix is saved and published as any first fix
C12_TtlExpiry ==
  /\ [][\A s \in Sensors :
          (appStore'[s] # appStore[s] /\ appStore'[s] # Absent)
            => ttl'[s] = [app |-> STATE_TTL, blob |-> STATE_TTL]]_vars
  /\ [](\A t \in Threads : FoundNothing(th[t]) =>
          LET r == th[t]
              p == RawPoint(r.cur)
          IN /\ LoadedAppState(r.appIn) = ZeroAppState
             /\ r.pc = "process" =>
                  r.app = createInitialState(p.lat, p.lon, p.timestamp)
             /\ r.pc # "process" =>
                  /\ r.result # Absent
                  /\ r.result[1].data.timestamp = p.timestamp
                  /\ r.app.lastTimestamp = p.timestamp
                  /\ r.app.velocityIndex = 1)

\* a fix is being published that was loaded after the keys its sensor's
\* earlier fix had saved were gone
C12_Witness ==
  \E t \in Threads :
    /\ th[t].pc = "publish" /\ FoundNothing(th[t]) /\ SavedBefore(th[t].cur)
    /\ ticks = 1


\* the blob and the app record were written by the same saveState call:
\* the record's previous position is the output of the filter state in
\* the blob
SameSave(blob, app) == deserializeAppState(app).prev = SmoothPos(blob)

\* C13: what a completed loadState has read is either nothing at all or the
\* blob and the app record of one and the same save: never the parts of
\* two saves, never one key without the other
C13_LoadSeesOneSave ==
  \A t \in Threads :
    th[t].pc = "process" =>
      \/ th[t].blobIn = Absent /\ th[t].appIn = Absent
      \/ /\ th[t].blobIn # Absent /\ th[t].appIn # Absent
         /\ SameSave(th[t].blobIn[1], th[t].appIn[1])


\* C14: a fix processed for a sensor with no stored state is run through
\* the position filter with the default time delta, not zero, and its
\* velocity is finite (zero, or a distance over a positive time)
C14_FirstFixDefaultDelta ==
  \A t \in Threads :
    LET r == th[t] IN
    (FoundNothing(r) /\ r.pc # "process") =>
      /\ LastDt(r.blobOut[1]) = DefaultDtMs
      /\ LET v == r.result[1].data.velocity IN v.zero \/ v.dt > 0


\* the main chain of w has run on after stop() was called
RanOnAfterStop(w) ==
  IF stopSnap[w] = Absent THEN FALSE ELSE th[Main(w)] # stopSnap[w][1]

\* C15: once stop() was called, at whatever point of startup, recovery, a
\* blocking read or a batch, the worker issues no further batch read when
\* the command in progress has returned, and its flag stays cleared
C15_NoReadAfterStop ==
  \A w \in Workers :
    RanOnAfterStop(w) => (th[Main(w)].pc # "xreadgroup" /\ ~running[w])


\* C16: a worker issues its first batch read only when the consumer group
\* is ensured and its startup recovery pass has finished: the pass starts
\* from the answered XGROUP CREATE, the loop is entered from the end of the
\* pass, and a read outside the loop's own iterations comes from there
C16_ReadAfterGroupAndRecovery ==
  [][\A w \in Workers :
       LET a == th[Main(w)]
           b == th'[Main(w)]
       IN /\ (b.pc = "xreadgroup" /\ a.mode # "batch") =>
               (a.pc = "start_loop" /\ groupExists)
          /\ (b.pc = "start_loop" /\ a.pc # "start_loop") =>
               /\ a.mode = "recover" /\ groupExists
               /\ a.pc = "xpending" \/ SelectSeq(a.pending, Listed) = <<>>
          /\ (b.mode = "recover" /\ a.mode # "recover") =>
               (a.pc = "xgroup" /\ groupExists')]_vars

\* both workers have issued their batch read, the second after finding the
\* group in place and an entry of the first on the pending list
C16_Witness ==
  /\ \A w \in Workers : th[Main(w)].pc = "xreadgroup" /\ running[w]
  /\ \E m \in Msgs : Pending(m)


\* C17: creating the group when it exists is harmless: the BUSYGROUP error
\* is swallowed, the worker goes on to its startup recovery pass, and the
\* group's position, its pending entries and the acknowledged messages are
\* what they were, for any number of workers started in any order
C17_CreateIsIdempotent ==
  [][\A w \in Workers :
       (/\ th[Main(w)].pc = "xgroup" /\ groupExists
        /\ th'[Main(w)].pc \notin {"xgroup", "dead"}) =>
         /\ th'[Main(w)].pc = "xpending"
         /\ groupExists'
         /\ lastDelivered' = lastDelivered
         /\ pel' = pel
         /\ acked' = acked]_vars

\* a worker starts its recovery pass in a group that had delivered
\* messages, one still pending, before the worker asked to create it
C17_Witness ==
  \E w \in Workers :
    /\ th[Main(w)].pc = "xpending" /\ th[Main(w)].mode = "recover"
    /\ lastDelivered > 0
    /\ \E m \in Msgs : Pending(m) /\ pel[m].owner # w


\* an entry whose owner was killed while a peer runs
Orphan(m) ==
  /\ Pending(m)
  /\ th[Main(pel[m].owner)].pc = "dead"
  /\ \E w \in Workers : running[w]

InHistory(m, blob) ==
  \E i \in 1..Len(blob) : blob[i].lon = RawPoint(m).lon

\* chains t and u hold two different messages of one sensor, loaded the
\* same stored state for them, and have both saved
RacedSaves(t, u) ==
  /\ t # u
  /\ th[t].pc \in {"publish", "xack"} /\ th[u].pc \in {"publish", "xack"}
  /\ th[t].cur # th[u].cur
  /\ RawPoint(th[t].cur).sensorId = RawPoint(th[u].cur).sensorId
  /\ th[t].appIn = th[u].appIn /\ th[t].blobIn = th[u].blobIn

\* C20: nothing orders the load-process-save sequences of two workers on
\* one sensor: when both have loaded the same stored state and both have
\* saved, the store holds the app record of one of them alone and a filter
\* state that went through one of the two fixes and not the other: one
\* update is lost
C20_LostUpdate ==
  \A t, u \in Threads :
    RacedSaves(t, u) =>
      LET s == RawPoint(th[t].cur).sensorId IN
      /\ appStore[s] # Absent /\ blobStore[s] # Absent
      /\ deserializeAppState(appStore[s][1]) \in {th[t].app, th[u].app}
      /\ InHistory(th[t].cur, blobStore[s][1])
           # InHistory(th[u].cur, blobStore[s][1])

\* both workers have saved after loading the same stored state for two
\* messages of sensor s1
C20_Witness ==
  /\ RacedSaves(Main("w1"), Main("w2"))
  /\ RawPoint(th[Main("w1")].cur).sensorId = "s1"


\* the entries of the time vectors of the last call of process
TimeEntries(c) ==
  {c.positionDeltas[i] : i \in 1..Len(c.positionDeltas)}
    \cup {c.velocityDeltas[i] : i \in 1..VELOCITY_WINDOW_SIZE}

\* C21: every entry of the time vectors process hands to the position and
\* the velocity pipeline is the time elapsed since the last timestamp of
\* the sensor's state, or the default delta when the state has none, and
\* never the absolute timestamp of the fix
C21_TimeVectorsAreDeltas ==
  pipe.last # <<>> =>
    LET c  == pipe.last[1]
        ts == c.result.timestamp
    IN \A e \in TimeEntries(c) :
         /\ e # ts
         /\ IF c.before.lastTimestamp > 0
            THEN e = ts - c.before.lastTimestamp
            ELSE e \in {DefaultDtMs, DefaultDtMs001}


Indices == 0..(VELOCITY_WINDOW_SIZE - 1)

\* C22: velocityIndex is in 0..4 in the state in hand (created, loaded or
\* returned by process), in the stored record and in what loadState
\* returned, and a call of process advances it by one modulo 5
C22_VelocityIndexInRange ==
  /\ pipe.state.velocityIndex \in Indices
  /\ pipe.point # <<>> =>
       createInitialAppState(pipe.point[1].lat, pipe.point[1].lon,
                             pipe.point[1].timestamp).velocityIndex \in Indices
  /\ pipe.stored # <<>> =>
       deserializeAppStateBytes(pipe.stored[1]).velocityIndex \in Indices
  /\ pipe.load # <<>> => pipe.load[1].got.velocityIndex \in Indices
  /\ pipe.last # <<>> =>
       /\ pipe.last[1].after.velocityIndex \in Indices
       /\ pipe.last[1].after.velocityIndex
            = (pipe.last[1].before.velocityIndex + 1) % VELOCITY_WINDOW_SIZE

\* the index wraps: a fix processed from a state with a full window
C22_Witness ==
  /\ pipe.last # <<>>
  /\ pipe.last[1].before.velocityIndex = VELOCITY_WINDOW_SIZE - 1
  /\ pipe.last[1].after.velocityIndex = 0


\* the state in the shape of the older state manager
OldState(st) ==
  [x |-> <<st.prevLat, st.prevLon, 0, 0>>,
   P |-> [i \in 1..16 |-> IF i \in {1, 6, 11, 16} THEN 1 ELSE 0],
   velocityBuffer |-> st.velocityBuffer,
   velocityIndex |-> st.velocityIndex,
   lastTimestamp |-> st.lastTimestamp]

\* the offset after the last value when the values written follow each
\* other from offset off without a gap
RECURSIVE EndOf(_, _, _)
EndOf(cells, i, off) ==
  IF i > Len(cells) THEN off
  ELSE IF cells[i].off # off THEN NaN
  ELSE EndOf(cells, i + 1, off + cells[i].width)

RoundTrips(st) ==
  /\ deserializeAppStateBytes(serializeAppStateBytes(st)) = st
  /\ serializeAppStateBytes(st).len = 68
  /\ EndOf(serializeAppStateBytes(st).cells, 1, 0) = 68
  /\ deserializeState(serializeState(OldState(st))) = OldState(st)
  /\ serializeState(OldState(st)).len = 212
  /\ EndOf(serializeState(OldState(st)).cells, 1, 0) = 212

C24_IsMovingStrict ==
  pipe.last # <<>> =>
    LET r == pipe.last[1].result
    IN /\ r.isMoving = (r.smoothedVelocity > 500)
       /\ r.smoothedVelocity = 500 => ~r.isMoving

\* a result whose smoothed velocity is exactly the threshold
C24_Witness ==
  /\ pipe.last # <<>>
  /\ pipe.last[1].result.smoothedVelocity = 500
  /\ ~pipe.last[1].result.isMoving


\* the distance the last call of process measured
LastDistance(c) ==
  Abs(c.result.smoothedLat - c.before.prevLat)
    + Abs(c.result.smoothedLon - c.before.prevLon)

\* the state the velocity calculator would hold after the fix before
StageState(c) ==
  IF c.before.lastTimestamp = 0 THEN <<>>
  ELSE <<[lastLat |-> c.before.prevLat, lastLon |-> c.before.prevLon,
          lastTimestamp |-> c.before.lastTimestamp]>>

\* C25: the instantaneous velocity of every processed fix is the distance
\* over the time delta when the delta is positive and 0 otherwise, also
\* for a fix whose timestamp equals or precedes the last one: it is never
\* negative and nothing is divided by zero
C25_VelocityGuarded ==
  pipe.last # <<>> =>
    LET c  == pipe.last[1]
        dt == c.positionDeltas[1]
        vc == velocityCalc(StageState(c), c.result.smoothedLat,
                           c.result.smoothedLon, c.result.timestamp)
    IN /\ c.result.velocity >= 0
       /\ dt <= 0 => c.result.velocity = 0
       /\ dt > 0 => c.result.velocity = (LastDistance(c) * 1000000) \div dt
       /\ vc >= 0
       /\ c.result.timestamp <= c.before.lastTimestamp => vc = 0

\* a fix that moved and whose timestamp precedes the last one: velocity 0
C25_Witness ==
  /\ pipe.last # <<>>
  /\ pipe.last[1].before.lastTimestamp > pipe.last[1].result.timestamp
  /\ LastDistance(pipe.last[1]) > 0
  /\ pipe.last[1].result.velocity = 0


\* the last loadState found a record of a length other than 68 bytes
LoadedWrongLength ==
  IF pipe.load = <<>> THEN FALSE
  ELSE IF pipe.load[1].from = <<>> THEN FALSE
  ELSE pipe.load[1].from[1].len # 68

\* C26: a stored record whose length is not the expected one is not
\* decoded: loadState returns the not-found state (the older loadState
\* null) and processMessage goes on as for a sensor never seen, with a
\* state created from the fix
C26_WrongLengthIsNotFound ==
  /\ LoadedWrongLength =>
       /\ pipe.load[1].got = ZeroSensorState
       /\ pipe.phase = "loaded" =>
            pipe.state = createInitialAppState(pipe.point[1].lat,
                                               pipe.point[1].lon,
                                               pipe.point[1].timestamp)
       /\ pipe.phase = "processed" =>
            pipe.last[1].before.lastTimestamp = pipe.last[1].result.timestamp
  /\ pipe.stored # <<>> =>
       (pipe.stored[1].len # 212 => loadStateOld(pipe.stored) = <<>>)

\* the fix after a record was cut short has been processed and saved
C26_Witness ==
  /\ LoadedWrongLength
  /\ pipe.load[1].from[1].len = 40
  /\ pipe.phase = "idle" /\ pipe.calls = 2 /\ Usable(pipe.stored)

\* processMessage of a message taken by a recovery pass returns normally
RecoveredReturns(t) ==
  /\ th[t].mode = "recover"
  /\ th[t].pc = "xack"
  /\ th'[t] # th[t]
  /\ faults' = faults

\* the number of results on the channel for message m
ResultsFor(m) ==
  Cardinality({i \in 1..Len(channel) : channel[i].messageId = m})

\* C27: a message claimed by a recovery pass runs through processMessage
\* like a message read from the stream; when processMessage returns the
\* state of its sensor has been saved, a result for it is on the channel
\* and it is acknowledged and no longer pending, also when its first
\* owner had saved, published or acknowledged it before
C27_RecoveryIsIdempotent ==
  [][\A t \in Threads :
       RecoveredReturns(t) =>
         LET m == th[t].cur IN
         /\ m \in entered /\ m \in savedFor
         /\ ResultsFor(m) >= 1
         /\ m \in acked' /\ pel'[m] = NoEntry
         /\ th'[t] = NextPending(th[t], t[2])]_vars

\* a message published and acknowledged by its first owner is inside
\* processMessage of a recovery pass, published a second time and about
\* to be acknowledged again
C27_Witness ==
  \E t \in Threads :
    /\ th[t].mode = "recover" /\ th[t].pc = "xack"
    /\ th[t].cur \in acked
    /\ ResultsFor(th[t].cur) = 2

\* C28: a failed batch read does not end the worker: the catch
\* acknowledges nothing and touches no pending entry, the chain sleeps,
\* and after the back-off it is at the head of the loop again, where it
\* sends the next read as long as stop() has not been called; the loop is
\* left and the process ends only after stop()
C28_ReadFailureRetries ==
  [][\A w \in Workers :
       LET before == th[Main(w)]
           after == th'[Main(w)]
       IN /\ (before.pc = "xreadgroup" /\ after # before
                 /\ faults' = faults + 1) =>
               /\ after.pc = "sleep"
               /\ acked' = acked /\ pel' = pel
               /\ running' = running
          /\ (before.pc = "sleep" /\ after # before /\ after.pc # "dead") =>
               /\ after.pc = IF running[w] THEN "xreadgroup" ELSE "stopped"
               /\ acked' = acked /\ pel' = pel
          /\ (after.pc \in {"stopped", "dead"} /\ after # before) =>
               stopSnap'[w] # Absent]_vars

\* three reads of w1 failed one after the other, none delivered a message
\* although one is in the stream, and w1 has sent its fourth
C28_Witness ==
  /\ faults = 3
  /\ streamLen > 0 /\ lastDelivered = 0
  /\ th[Main("w2")].pc = "dead" /\ stopSnap["w2"] = Absent
  /\ th[Main("w1")].pc = "xreadgroup"
  /\ running["w1"] /\ stopSnap["w1"] = Absent

\* the filter a registered response connected with: <<>> for none
FilterOf(c) ==
  IF c \in sse.allClients THEN <<>>
  ELSE <<CHOOSE s \in Sensors : c \in sse.clients[s]>>

\* the results response c is due: those handled since it connected, of
\* its sensor if it has a filter, in the order they were handled
Due(c) ==
  LET f == FilterOf(c)
      Wanted(msg) == /\ msg.sensorId # ""
                     /\ f # <<>> => msg.sensorId = f[1]
  IN SelectSeq(SubSeq(sse.heard, sse.since[c] + 1, Len(sse.heard)), Wanted)

C30_NoOverlapInWorker ==
  \A w \in Workers :
    ~(th[Main(w)].pc \in PmPcs /\ th[Timer(w)].pc \in PmPcs)

\* the output stream of the stage holds a record made from message m
Forwarded(m) == \E i \in 1..Len(stage.out) : stage.out[i].src = m

\* C31: a message a stage worker read and did not acknowledge is in the
\* end acknowledged, and forwarded if it is valid, by a worker of the group
C31_StagePendingEventuallyForwarded ==
  \A m \in Msgs :
    Pending(m) ~> (m \in acked /\ (~IsInvalid(RawPoint(m)) => Forwarded(m)))

\* C35: a stage worker acknowledges a valid input message only after its
\* output record is on the output stream: at every moment, also after a
\* kill or a throw at any step, a valid message that was delivered is
\* still pending or has its output record
C35_AckAfterForward ==
  \A m \in Msgs :
    ~IsInvalid(RawPoint(m)) =>
      /\ m \in acked => Forwarded(m)
      /\ m <= lastDelivered => Pending(m) \/ Forwarded(m)

\* one valid message went through XADD and XACK; the worker was killed
\* between XADD and XACK of another, which is pending with its output
\* record written
C35_Witness ==
  \E m, n \in Msgs :
    /\ ~IsInvalid(RawPoint(m)) /\ m \in acked /\ Forwarded(m)
    /\ ~IsInvalid(RawPoint(n)) /\ Pending(n) /\ Forwarded(n)
    /\ th[Main(pel[n].owner)].pc = "dead"

\* C32: when a recovery pass is over, the XCLAIM of every entry that was
\* pending and idle for 30000 ms at its start has been sent, however long
\* the pending list and however many older entries are below the threshold
C32_PassClaimsEveryIdleEntry ==
  pass.phase = "done" =>
    \A i \in 1..Len(pass.entries) :
      pass.entries[i] >= 30000 => i \in pass.attempted

StillListed(r) == {i \in 1..Len(r.pending) : r.pending[i].idle >= 30000}

\* C34: when the XCLAIM or the processing of an entry throws inside a
\* recovery pass, nothing is acknowledged, the entry stays as it was in the
\* pending list, and the pass goes on: the XCLAIM of the next listed entry
\* is sent, or the pass ends because none is left
C34_FailureKeepsPassGoing ==
  [][\A t \in Threads :
       LET r == th[t] IN
       (/\ r.mode = "recover"
        /\ r.pc \in PmPcs \cup {"xclaim"}
        /\ th'[t] # r /\ th'[t].pc # "dead"
        /\ faults' = faults + 1) =>
          /\ acked' = acked /\ pel' = pel /\ channel' = channel
          /\ IF StillListed(r) = {}
             THEN th'[t].pc \in {"start_loop", "idle"}
             ELSE LET i == CHOOSE j \in StillListed(r) :
                              \A k \in StillListed(r) : j <= k
                  IN /\ th'[t].pc = "xclaim"
                     /\ th'[t].cur = r.pending[i].id
                     /\ th'[t].cur # r.cur]_vars

\* processing of message 1 threw in a pass that had claimed it: it is
\* pending and unacknowledged, and the pass is at message 2
C34_Witness ==
  \E t \in Threads :
    /\ th[t].mode = "recover" /\ th[t].cur = 2
    /\ th[t].pc \in PmPcs \cup {"xclaim"}
    /\ th[t].skipped = 0
    /\ pel[1].owner = t[1] /\ 1 \notin acked
    /\ faults = 1 /\ ticks = 1
    /\ \A w \in Workers : th[Main(w)].pc # "dead"

\* C36: when the fix whose state was saved is processed once more (the
\* loaded state carries the timestamp of the fix), the record saved by the
\* second processing decodes to the state the first one had saved
C36_ReprocessingKeepsState ==
  (/\ pipe.caller = "worker" /\ pipe.phase = "idle"
   /\ pipe.load # <<>> /\ pipe.point # <<>> /\ pipe.stored # <<>>) =>
     ((/\ pipe.stored[1].len = 68
       /\ pipe.load[1].got.lastTimestamp = pipe.point[1].timestamp) =>
         deserializeAppStateBytes(pipe.stored[1]) = pipe.load[1].got)

\* C37: the time delta process hands to the position filter is never
\* negative, also when a fix is older than the last one of the state
C37_DeltaNeverNegative ==
  pipe.last # <<>> =>
    \A i \in 1..Len(pipe.last[1].positionDeltas) :
      pipe.last[1].positionDeltas[i] >= 0


\* C38: a recovery pass (a chain of the worker calling
\* recoverPendingMessages, which issues XPENDING) starts only while stop()
\* has not been called, and a pass of the interval only when running is true
C38_PassesOnlyWhileRunning ==
  [][\A t \in Threads :
       (th'[t].pc = "xpending" /\ th[t].pc # "xpending") =>
         /\ stopSnap[t[1]] = Absent
         /\ (t[2] = "timer" => running[t[1]])]_vars


\* the places response c is registered in: the sensorIds whose set holds it
\* and "all" for allClients
Places(c) ==
  {s \in Sensors : c \in sse.clients[s]}
    \cup (IF c \in sse.allClients THEN {"all"} ELSE {})

====
